---- MODULE Spec2Model ----
(***************************************************************************)
(* AIBillBrief: ingestion of bill PDFs into the BILL_CHUNKS table          *)
(* (local_pdf_processor.py, load_bills_to_snowflake) and the query         *)
(* classifier / retriever / context grouping of                            *)
(* query_cortex_search_service, the span headers and the chat turn of      *)
(* main (local_streamlit_app.py).                                          *)
(*                                                                         *)
(* Text is a sequence of one-character strings, so that the regular        *)
(* expressions, str.replace, str.upper, SQL LIKE and CONTAINS of the code  *)
(* are computed character by character.                                    *)
(***************************************************************************)
EXTENDS Integers, Sequences, FiniteSets, Bags, TLC

VARIABLES
    csv_files,    \* the csv_files folder: csv file name -> its records
    BILL_CHUNKS,  \* the BILL_CHUNKS table: a bag of rows
    loads,        \* number of load_bills_to_snowflake runs started so far
    pc,           \* "idle", or "returned" right after a query call
    call,         \* the last query_cortex_search_service call and its outcome
    saved,        \* the last save_chunks_to_csv call and its outcome
    metadata_call, \* the last extract_metadata_from_first_page call and its outcome
    header_call, \* the last format_bill_header call and its outcome
    session_state, \* st.session_state: messages, use_chat_history, num_chat_messages
    turn, \* the script run that handles a question of the chat input: its locals
    bill_call \* the last search of a question for a bill id and its outcome

vars == <<csv_files, BILL_CHUNKS, loads, pc, call, saved, metadata_call, header_call, session_state, turn, bill_call>>

\* Python None / SQL NULL / pandas NaN: a value no text equals
Null == <<"NULL">>

(***************************************************************************)
(* Characters and strings                                                  *)
(***************************************************************************)

UpperLetters == <<"A","B","C","D","E","F","G","H","I","J","K","L","M","N","O","P","Q","R","S","T","U","V","W","X","Y","Z">>
LowerLetters == <<"a","b","c","d","e","f","g","h","i","j","k","l","m","n","o","p","q","r","s","t","u","v","w","x","y","z">>

Range(s) == {s[i] : i \in 1..Len(s)}

Letter == Range(UpperLetters) \cup Range(LowerLetters)
Digit == {"0","1","2","3","4","5","6","7","8","9"}
\* \s of Python's re
Whitespace == {" ", "\t", "\n"}
\* \w of Python's re
WordChar == Letter \cup Digit \cup {"_"}

IndexOf(s, c) == CHOOSE i \in 1..Len(s) : s[i] = c

\* str.upper / str.lower / SQL UPPER on one character
UpperChar(c) == IF c \in Range(LowerLetters) THEN UpperLetters[IndexOf(LowerLetters, c)] ELSE c
LowerChar(c) == IF c \in Range(UpperLetters) THEN LowerLetters[IndexOf(UpperLetters, c)] ELSE c

Upper(s) == [i \in 1..Len(s) |-> UpperChar(s[i])]
Lower(s) == [i \in 1..Len(s) |-> LowerChar(s[i])]

\* the literal w occurs in s starting at position i (1-based)
MatchAt(s, i, w) ==
    /\ i >= 1
    /\ i + Len(w) - 1 <= Len(s)
    /\ \A k \in 1..Len(w) : s[i + k - 1] = w[k]

\* one of the literals of the set ws occurs in s at position i
AnyAt(s, i, ws) == \E w \in ws : MatchAt(s, i, w)

\* substring test: Python's `in`, SQL CONTAINS(s, w) and s LIKE '%w%' for a
\* w without wildcards; all three compare characters exactly (case-sensitive)
Contains(s, w) == \E i \in 1..(Len(s) - Len(w) + 1) : MatchAt(s, i, w)

\* s LIKE 'w%'
StartsWith(s, w) == MatchAt(s, 1, w)
\* str.endswith
EndsWith(s, w) == Len(s) >= Len(w) /\ MatchAt(s, Len(s) - Len(w) + 1, w)

\* the position after the longest run of characters of class that starts at p
RECURSIVE RunEnd(_, _, _)
RunEnd(s, p, class) ==
    IF p <= Len(s) /\ s[p] \in class THEN RunEnd(s, p + 1, class) ELSE p

\* str.strip(): leading and trailing whitespace removed
RECURSIVE RStripEnd(_, _)
RStripEnd(s, e) == IF e >= 1 /\ s[e] \in Whitespace THEN RStripEnd(s, e - 1) ELSE e
Strip(s) ==
    LET b == RunEnd(s, 1, Whitespace)
        e == RStripEnd(s, Len(s))
    IN IF b > e THEN <<>> ELSE SubSeq(s, b, e)

\* str.replace(old, new): every non-overlapping occurrence, left to right
RECURSIVE ReplaceFrom(_, _, _, _)
ReplaceFrom(s, i, old, new) ==
    IF i > Len(s) THEN <<>>
    ELSE IF MatchAt(s, i, old) THEN new \o ReplaceFrom(s, i + Len(old), old, new)
    ELSE <<s[i]>> \o ReplaceFrom(s, i + 1, old, new)
Replace(s, old, new) == ReplaceFrom(s, 1, old, new)

\* \b of Python's re at position p (between s[p-1] and s[p])
IsWordAt(s, p) == p >= 1 /\ p <= Len(s) /\ s[p] \in WordChar
WordBoundary(s, p) == IsWordAt(s, p - 1) # IsWordAt(s, p)

\* lexicographic order by character code: SQL ORDER BY on a string column
\* (binary collation). Code lists the characters used in file names.

CodeOrder == <<" ","-",".","0","1","2","3","4","5","6","7","8","9","A","B","C","D","E","F","G","H","I","J","K","L","M","N","O","P","Q","R","S","T","U","V","W","X","Y","Z","_","a","b","c","d","e","f","g","h","i","j","k","l","m","n","o","p","q","r","s","t","u","v","w","x","y","z">>
Code(c) == IndexOf(CodeOrder, c)

RECURSIVE StrLess(_, _)
StrLess(a, b) ==
    IF b = <<>> THEN FALSE
    ELSE IF a = <<>> THEN TRUE
    ELSE IF a[1] = b[1] THEN StrLess(Tail(a), Tail(b))
    ELSE Code(a[1]) < Code(b[1])

(***************************************************************************)
(* Query classification: the regular expressions of                       *)
(* query_cortex_search_service, searched with re.IGNORECASE (the query is  *)
(* lower-cased and compared with lower-case literals; captured groups are  *)
(* cut from the query as typed).                                           *)
(***************************************************************************)

SB == <<"S","B">>
HB == <<"H","B">>
\* (SB|sb|Senate Bill|senate bill) and (?:senate bill|sb)
SenateWords == {<<"s","b">>, <<"s","e","n","a","t","e"," ","b","i","l","l">>}
\* (HB|hb|House Bill|house bill) and (?:house bill|hb)
HouseWords == {<<"h","b">>, <<"h","o","u","s","e"," ","b","i","l","l">>}
TypeWords(btype) == IF btype = SB THEN SenateWords ELSE HouseWords

\* r'\b(<words>)\s*(\d+)\b' at position i of the lower-cased query lq:
\* <<start of the digits, position after them>>, or <<>> when it does not
\* match there. \d+ is greedy and \b after it fails inside a run of word
\* characters, so the digits are the whole run and the next character is
\* not a word character.
BillMatchAt(lq, i, btype) ==
    IF WordBoundary(lq, i) /\ AnyAt(lq, i, TypeWords(btype))
    THEN LET lit == CHOOSE x \in TypeWords(btype) : MatchAt(lq, i, x)
             b == RunEnd(lq, i + Len(lit), Whitespace)
             c == RunEnd(lq, b, Digit)
         IN IF c > b /\ WordBoundary(lq, c) THEN <<b, c>> ELSE <<>>
    ELSE <<>>

\* re.search: the leftmost position where the pattern matches; the number
\* is group(2), or <<>> when the pattern matches nowhere
BillNumber(query, btype) ==
    LET lq == Lower(query)
        hits == {i \in 1..Len(lq) : BillMatchAt(lq, i, btype) # <<>>}
    IN IF hits = {} THEN <<>>
       ELSE LET i == CHOOSE x \in hits : \A y \in hits : x <= y
                m == BillMatchAt(lq, i, btype)
            IN SubSeq(query, m[1], m[2] - 1)

\* the order of bill_patterns: Senate first, then House
bill_patterns == <<SB, HB>>

\* ExtractBillQuery with the House pattern tried first: a faulty variant,
\* which C24_SenateMatchFirst must tell from ExtractBillQuery
ExtractBillQueryHouseFirst(query) ==
    IF BillNumber(query, bill_patterns[2]) # <<>>
    THEN bill_patterns[2] \o BillNumber(query, bill_patterns[2])
    ELSE IF BillNumber(query, bill_patterns[1]) # <<>>
    THEN bill_patterns[1] \o BillNumber(query, bill_patterns[1])
    ELSE Null

\* the loop over bill_patterns with its break: bill_query = f"{btype}{number}"
\* of the first pattern that matches, or Null
ExtractBillQuery(query) ==
    IF BillNumber(query, bill_patterns[1]) # <<>>
    THEN bill_patterns[1] \o BillNumber(query, bill_patterns[1])
    ELSE IF BillNumber(query, bill_patterns[2]) # <<>>
    THEN bill_patterns[2] \o BillNumber(query, bill_patterns[2])
    ELSE Null

\* (?:recent|latest|any|tell|show|about|summary)
BrowseLead == {<<"r","e","c","e","n","t">>, <<"l","a","t","e","s","t">>, <<"a","n","y">>, <<"t","e","l","l">>, <<"s","h","o","w">>, <<"a","b","o","u","t">>, <<"s","u","m","m","a","r","y">>}
\* (?:recent|latest|filed|new)
BrowseTrail == {<<"r","e","c","e","n","t">>, <<"l","a","t","e","s","t">>, <<"f","i","l","e","d">>, <<"n","e","w">>}

NoNewline(s, a, b) == \A k \in a..b : s[k] # "\n"

\* r'(?:<first>).*(?:<second>)' matches somewhere in s: a literal of first,
\* then any characters but a newline, then a literal of second. An optional
\* s? after either literal changes nothing about whether a match exists.
ThenMatches(s, first, second) ==
    \E i \in 1..Len(s) : \E x \in first :
        /\ MatchAt(s, i, x)
        /\ \E j \in (i + Len(x))..Len(s) :
              AnyAt(s, j, second) /\ NoNewline(s, i + Len(x), j - 1)

\* r'\b(?:<words>)s?\b' matches somewhere in s
WholeWordMatches(s, words) ==
    \E i \in 1..Len(s) : \E x \in words :
        /\ WordBoundary(s, i)
        /\ MatchAt(s, i, x)
        /\ \/ WordBoundary(s, i + Len(x))
           \/ MatchAt(s, i + Len(x), <<"s">>) /\ WordBoundary(s, i + Len(x) + 1)

\* the six bill_type_patterns, in list order, each with its type
BillTypePatternMatches(k, lq) ==
    CASE k = 1 -> ThenMatches(lq, BrowseLead, HouseWords)
      [] k = 2 -> ThenMatches(lq, HouseWords, BrowseTrail)
      [] k = 3 -> ThenMatches(lq, BrowseLead, SenateWords)
      [] k = 4 -> ThenMatches(lq, SenateWords, BrowseTrail)
      [] k = 5 -> WholeWordMatches(lq, HouseWords)
      [] k = 6 -> WholeWordMatches(lq, SenateWords)
BillTypePatternType(k) == IF k \in {1, 2, 5} THEN HB ELSE SB

\* the loop over bill_type_patterns with its break: the type of the first
\* pattern that matches, or Null
ExtractBillType(query) ==
    LET lq == Lower(query)
        hits == {k \in 1..6 : BillTypePatternMatches(k, lq)}
    IN IF hits = {} THEN Null
       ELSE BillTypePatternType(CHOOSE k \in hits : \A m \in hits : k <= m)

\* [a-zA-Z.\s-]
NameChar == Letter \cup Whitespace \cup {".", "-"}

Senator == <<"s","e","n","a","t","o","r">>

\* sponsor_patterns[0]:
\*   r'(?:bills? (?:by|from|sponsored by)|what (?:bills|else) (?:has|have|did))?
\*     \s*(?:senator[s]?\s+([a-zA-Z.\s-]+))'
\* The optional prefix and \s* decide only where the match starts; group(1)
\* hangs on the first "senator" or "senators" that is followed by
\* whitespace and then by at least one more character of the class. \s+
\* and the group are both greedy and whitespace is in the class, so together
\* they cover the whole run r of class characters that starts at the first
\* whitespace a, which must be at least 2 long; group(1).strip() is
\* Strip(r) in every split of the run.
SenatorMatchAt(lq, p) ==
    IF MatchAt(lq, p, Senator)
    THEN LET a == IF MatchAt(lq, p + 7, <<"s">>) THEN p + 8 ELSE p + 7
             e == RunEnd(lq, a, NameChar)
         IN IF a <= Len(lq) /\ lq[a] \in Whitespace /\ e - a >= 2
            THEN <<a, e>> ELSE <<>>
    ELSE <<>>

\* <<TRUE, name>> when the pattern matches (name is group(1).strip(), which
\* may be empty), <<FALSE, <<>> >> when it does not
SponsorPattern1(query) ==
    LET lq == Lower(query)
        hits == {p \in 1..Len(lq) : SenatorMatchAt(lq, p) # <<>>}
    IN IF hits = {} THEN <<FALSE, <<>> >>
       ELSE LET p == CHOOSE x \in hits : \A y \in hits : x <= y
                m == SenatorMatchAt(lq, p)
            IN <<TRUE, Strip(SubSeq(query, m[1], m[2] - 1))>>

\* (?:what|any|other)
AskWords == {<<"w","h","a","t">>, <<"a","n","y">>, <<"o","t","h","e","r">>}
\* (?:by|from|sponsored by)
ByWords == {<<"b","y">>, <<"f","r","o","m">>, <<"s","p","o","n","s","o","r","e","d"," ","b","y">>}
\* (?:sponsor|file|author)
EndWords == {<<"s","p","o","n","s","o","r">>, <<"f","i","l","e">>, <<"a","u","t","h","o","r">>}
Bill == <<"b","i","l","l">>

\* the terminator (?:\s+(?:sponsor|file|author)|[?.,]|$) matches at t
TerminatorAt(lq, t) ==
    \/ t <= Len(lq) /\ lq[t] \in Whitespace
          /\ AnyAt(lq, RunEnd(lq, t, Whitespace), EndWords)
    \/ t <= Len(lq) /\ lq[t] \in {"?", ".", ","}
    \/ t = Len(lq) + 1
    \/ t = Len(lq) /\ lq[t] = "\n"

\* the lazy group ([a-zA-Z.\s-]+?) starting at c: the shortest non-empty run
\* of class characters after which the terminator matches; 0 when none
LazyNameEnd(lq, c) ==
    LET e == RunEnd(lq, c, NameChar)
        ends == {t \in (c + 1)..e : TerminatorAt(lq, t)}
    IN IF ends = {} THEN 0 ELSE CHOOSE t \in ends : \A u \in ends : t <= u

\* sponsor_patterns[1]:
\*   r'(?:what|any|other)\s+bills?\s+(?:by|from|sponsored by)\s+
\*     ([a-zA-Z.\s-]+?)(?:\s+(?:sponsor|file|author)|[?.,]|$)'
\* matched piece by piece from position i. Each piece takes the position
\* where the piece before it ended and gives the position where it ends, 0
\* when the match has failed.
\* (?:what|any|other)
AskEnd(lq, i) ==
    IF AnyAt(lq, i, AskWords)
    THEN i + Len(CHOOSE x \in AskWords : MatchAt(lq, i, x)) ELSE 0

\* \s+
SpacesEnd(lq, a) ==
    IF a # 0 /\ RunEnd(lq, a, Whitespace) > a THEN RunEnd(lq, a, Whitespace) ELSE 0

\* bills? (the s is taken only when whitespace follows it)
BillsEnd(lq, b) ==
    IF b # 0 /\ MatchAt(lq, b, Bill)
    THEN IF MatchAt(lq, b + 4, <<"s">>) /\ b + 5 <= Len(lq) /\ lq[b + 5] \in Whitespace
         THEN b + 5 ELSE b + 4
    ELSE 0

\* (?:by|from|sponsored by)
ByEnd(lq, c) ==
    IF c # 0 /\ AnyAt(lq, c, ByWords)
    THEN c + Len(CHOOSE x \in ByWords : MatchAt(lq, c, x)) ELSE 0

\* the group, from where it starts
NameSpan(lq, c) == <<c, LazyNameEnd(lq, c)>>

\* \s+ and the group after it: \s+ is greedy and gives whitespace back to
\* the group one character at a time when the group cannot match after it
NameAfter(lq, w) ==
    IF w = 0 THEN <<>>
    ELSE LET starts == {c \in (w + 1)..RunEnd(lq, w, Whitespace) : LazyNameEnd(lq, c) # 0}
         IN IF starts = {} THEN <<>>
            ELSE NameSpan(lq, CHOOSE x \in starts : \A y \in starts : x >= y)

\* the span of group(1) of a match that starts at i, << >> when there is none
AskedMatchAt(lq, i) ==
    NameAfter(lq, ByEnd(lq, SpacesEnd(lq, BillsEnd(lq, SpacesEnd(lq, AskEnd(lq, i))))))

\* the name the leftmost match of AskedMatchAt captures
AskedName(query, m) == <<TRUE, Strip(SubSeq(query, m[1], m[2] - 1))>>

SponsorPattern2(query) ==
    LET hits == {i \in 1..Len(query) : AskedMatchAt(Lower(query), i) # <<>>}
    IN IF hits = {} THEN <<FALSE, <<>> >>
       ELSE AskedName(query, AskedMatchAt(Lower(query),
                                          CHOOSE x \in hits : \A y \in hits : x <= y))

\* the loop over sponsor_patterns with its break
FirstSponsorMatch(m1, m2) ==
    IF m1[1] THEN m1[2] ELSE IF m2[1] THEN m2[2] ELSE Null

\* the stripped name of the first pattern that matches (it may be empty),
\* or Null when none matches
ExtractSponsorName(query) ==
    FirstSponsorMatch(SponsorPattern1(query), SponsorPattern2(query))

(***************************************************************************)
(* The bills folder                                                        *)
(***************************************************************************)

File_hb1 == <<"h","b","1",".","p","d","f">>
File_hb45 == <<"h","b","4","5",".","p","d","f">>
File_hb9 == <<"h","b","9",".","p","d","f">>
File_sb8 == <<"s","b","8",".","p","d","f">>
File_notes == <<"n","o","t","e","s",".","t","x","t">>

\* os.listdir('bills')
BillsFolder == {File_hb1, File_hb45, File_hb9, File_sb8, File_notes}

PdfExt == <<".","p","d","f">>
CsvExt == <<".","c","s","v">>
UpperPdfExt == <<".","P","D","F">>

\* chunk_text(read_pdf(path)) of each PDF of the folder: what PyPDF2 and
\* RecursiveCharacterTextSplitter return for it (read_pdf has replaced every
\* newline by a space, and the splitter returns no empty chunk)
PdfChunks(f) ==
    CASE f = File_hb1 -> <<
            <<"B","y",":"," ","S","e","n","a","t","o","r"," ","J","a","n","e"," ","P","a","y","t","o","n">>,
            <<"i","n","c","o","m","e"," ","t","a","x"," ","c","r","e","d","i","t">> >>
      \* the whole text of hb45.pdf is "N/A": pd.read_csv reads its chunk as NaN
      [] f = File_hb45 -> <<
            <<"N","/","A">> >>
      [] f = File_hb9 -> <<
            <<"B","y",":"," ","S","e","n","a","t","o","r"," ","J","a","n","e"," ","P","a","y","t","o","n">>,
            <<"r","o","a","d"," ","f","u","n","d","s">> >>
      [] f = File_sb8 -> <<
            <<"B","y",":"," ","S","e","n","a","t","o","r"," ","D","i","s","m","a","n","g"," ","t","a","x">>,
            <<"P","a","y","t","o","n"," ","f","a","r","m","s">>,
            <<"t","a","x"," ","r","e","p","e","a","l">> >>
      [] OTHER -> << >>

\* a pandas Timestamp: <<year, month, day, hour, minute, second>>
\* extract_metadata_from_first_page(path) of each PDF of the folder
PdfMetadata(f) ==
    CASE f = File_hb1 -> [date_filed |-> <<2025, 1, 13, 10, 5, 0>>, bill_subtitle |-> <<"T","A","X"," ","C","R","E","D","I","T">>, bill_sponsor |-> Null]
      [] f = File_sb8 -> [date_filed |-> <<2025, 2, 3, 16, 30, 9>>, bill_subtitle |-> Null, bill_sponsor |-> <<"D","i","s","m","a","n","g">>]
      [] OTHER -> [date_filed |-> Null, bill_subtitle |-> Null, bill_sponsor |-> Null]

(***************************************************************************)
(* LocalPDFProcessor.save_chunks_to_csv                                    *)
(***************************************************************************)
DigitChars == <<"0","1","2","3","4","5","6","7","8","9">>
D2(n) == <<DigitChars[(n \div 10) + 1], DigitChars[(n % 10) + 1]>>
D4(n) == D2(n \div 100) \o D2(n % 100)

\* Timestamp.strftime('%Y-%m-%d %H:%M:%S')
FormatTimestamp(t) ==
    D4(t[1]) \o <<"-">> \o D2(t[2]) \o <<"-">> \o D2(t[3]) \o <<" ">>
        \o D2(t[4]) \o <<":">> \o D2(t[5]) \o <<":">> \o D2(t[6])

\* BuildChunkRecords numbering the chunks from 1: a faulty variant, which
\* C10_RecordsOfChunks must tell from BuildChunkRecords
BuildChunkRecordsFromOne(pdf_file, chunks, metadata) ==
    [i \in 1..Len(chunks) |->
        [chunk |-> chunks[i],
         chunk_index |-> i,
         source_file |-> pdf_file,
         chunk_length |-> Len(chunks[i]),
         date_filed |-> IF metadata.date_filed # Null
                        THEN FormatTimestamp(metadata.date_filed) ELSE Null,
         bill_subtitle |-> metadata.bill_subtitle,
         bill_sponsor |-> metadata.bill_sponsor]]

\* the DataFrame built from the chunks: one record per chunk, in chunk
\* order, the scalars (file name, metadata) repeated on every record. The
\* timestamp column (the wall-clock time of the save) is written too; no
\* query reads it and it is left out of the records.
BuildChunkRecords(pdf_file, chunks, metadata) ==
    [i \in 1..Len(chunks) |->
        [chunk |-> chunks[i],
         chunk_index |-> i - 1,
         source_file |-> pdf_file,
         chunk_length |-> Len(chunks[i]),
         date_filed |-> IF metadata.date_filed # Null
                        THEN FormatTimestamp(metadata.date_filed) ELSE Null,
         bill_subtitle |-> metadata.bill_subtitle,
         bill_sponsor |-> metadata.bill_sponsor]]

\* csv_file_path: pdf_file.replace('.pdf', '.csv')
CsvName(pdf_file) == Replace(pdf_file, PdfExt, CsvExt)

\* save_chunks_to_csv(pdf_file, chunks, metadata): the folder after the
\* call and the value returned. written = FALSE is the except branch (the
\* DataFrame or the file could not be written): nothing is written and None
\* is returned.
save_chunks_to_csv(folder, pdf_file, chunks, metadata, written) ==
    IF written
    THEN [folder |-> (CsvName(pdf_file) :> BuildChunkRecords(pdf_file, chunks, metadata)) @@ folder,
          returned |-> BuildChunkRecords(pdf_file, chunks, metadata)]
    ELSE [folder |-> folder, returned |-> Null]

\* process_pdfs: every file of the folder whose name ends with '.pdf' is
\* read, chunked and saved (the local file system is taken to work: every
\* save succeeds)
RECURSIVE process_pdfs(_, _)
process_pdfs(folder, todo) ==
    IF todo = {} THEN folder
    ELSE LET f == CHOOSE x \in todo : TRUE
             next == IF EndsWith(f, PdfExt)
                     THEN save_chunks_to_csv(folder, f, PdfChunks(f), PdfMetadata(f), TRUE).folder
                     ELSE folder
         IN process_pdfs(next, todo \ {f})

(***************************************************************************)
(* load_bills_to_snowflake                                                 *)
(***************************************************************************)
ParseNumber(s) ==
    LET RECURSIVE Val(_)
        Val(k) == IF k = 0 THEN 0 ELSE 10 * Val(k - 1) + (IndexOf(DigitChars, s[k]) - 1)
    IN Val(Len(s))

\* pd.to_datetime of a 'YYYY-MM-DD HH:MM:SS' string (NaN stays NaT)
ParseTimestamp(s) ==
    IF s = Null THEN Null
    ELSE <<ParseNumber(SubSeq(s, 1, 4)), ParseNumber(SubSeq(s, 6, 7)),
           ParseNumber(SubSeq(s, 9, 10)), ParseNumber(SubSeq(s, 12, 13)),
           ParseNumber(SubSeq(s, 15, 16)), ParseNumber(SubSeq(s, 18, 19))>>

\* strings pd.read_csv reads as NaN
NaStrings == {<<"N","A">>, <<"N","/","A">>, <<"N","U","L","L">>, <<"N","a","N">>, <<"n","a","n">>, <<"n","u","l","l">>, <<"n","/","a">>, <<>>}
ReadCsvText(s) == IF s \in NaStrings THEN Null ELSE s

\* the rows one CSV file contributes: pd.read_csv, date_filed through
\* pd.to_datetime, source_file upper-cased
CsvRows(records) ==
    [i \in 1..Len(records) |->
        [chunk |-> ReadCsvText(records[i].chunk),
         chunk_index |-> records[i].chunk_index,
         source_file |-> Upper(records[i].source_file),
         chunk_length |-> records[i].chunk_length,
         date_filed |-> ParseTimestamp(records[i].date_filed),
         bill_subtitle |-> IF records[i].bill_subtitle = Null THEN Null
                           ELSE ReadCsvText(records[i].bill_subtitle),
         bill_sponsor |-> IF records[i].bill_sponsor = Null THEN Null
                          ELSE ReadCsvText(records[i].bill_sponsor)]]

SeqToBag(s) ==
    LET elems == Range(s)
    IN [r \in elems |-> Cardinality({i \in 1..Len(s) : s[i] = r})]

\* snow_df.write.mode("append").save_as_table("BILL_CHUNKS") for each CSV
\* file of `appended`
RECURSIVE AppendCsvFiles(_, _, _)
AppendCsvFiles(table, folder, appended) ==
    IF appended = {} THEN table
    ELSE LET n == CHOOSE x \in appended : TRUE
         IN AppendCsvFiles(table (+) SeqToBag(CsvRows(folder[n])), folder, appended \ {n})

\* the DELETE FROM BILL_CHUNKS inside its own try/except: when it raises
\* the error is printed and the load goes on with the table as it was
ClearTable(table, deleted) == IF deleted THEN EmptyBag ELSE table

(***************************************************************************)
(* The retrieval queries of query_cortex_search_service, evaluated on the  *)
(* BILL_CHUNKS table (a bag of rows). Each is the set of row sequences the *)
(* SQL may return: rows that ORDER BY leaves tied come in any order.       *)
(***************************************************************************)
\* SELECT b."chunk", b."source_file", b."chunk_index"
Project(r) == [chunk |-> r.chunk, source_file |-> r.source_file, chunk_index |-> r.chunk_index]
ProjectAll(s) == [i \in 1..Len(s) |-> Project(s[i])]

\* the rows `rows` of table t, with their multiplicities
Where(t, rows) == [r \in rows |-> t[r]]

\* ORDER BY key LIMIT n: the first n rows (all rows when there are fewer) of
\* every arrangement of the bag b with keys ascending
RECURSIVE OrderByLimit(_, _, _)
OrderByLimit(b, key, n) ==
    IF DOMAIN b = {} \/ n = 0 THEN {<< >>}
    ELSE LET rows == DOMAIN b
             least == {r \in rows : \A x \in rows : key[r] <= key[x]}
         IN UNION {{<<r>> \o rest : rest \in OrderByLimit(b (-) SetToBag({r}), key, n - 1)} :
                      r \in least}

\* ORDER BY key: every arrangement of the bag b with keys ascending
OrderBy(b, key) == OrderByLimit(b, key, BagCardinality(b))

\* ORDER BY b."chunk_index"
ByChunkIndex(b) == OrderBy(b, [r \in DOMAIN b |-> r.chunk_index])

\* ORDER BY b."chunk_index" LIMIT n
FirstByChunkIndex(b, n) == OrderByLimit(b, [r \in DOMAIN b |-> r.chunk_index], n)

\* SpecificBillSql without its WHERE clause: a faulty variant, which
\* C2_SpecificBill must tell from SpecificBillSql
SpecificBillSqlAnyFile(t, bill_query, n) ==
    {ProjectAll(s) : s \in FirstByChunkIndex(t, n)}

\* WHERE UPPER(b."source_file") = '{bill_query.upper()}.PDF'
\* ORDER BY b."chunk_index" LIMIT {num_retrieved_chunks}
SpecificBillSql(t, bill_query, n) ==
    LET IsBill(r) == r.source_file # Null
                       /\ Upper(r.source_file) = Upper(bill_query) \o UpperPdfExt
    IN {ProjectAll(s) : s \in FirstByChunkIndex(Where(t, {r \in DOMAIN t : IsBill(r)}), n)}

\* BillTypeSql ranking by "source_file" ASC: a faulty variant, which
\* C4_GreatestDocument must tell from BillTypeSql
BillTypeSqlAscending(t, bill_type) ==
    LET OfType(r) == r.source_file # Null /\ StartsWith(r.source_file, bill_type)
        files == {r.source_file : r \in {x \in DOMAIN t : OfType(x)}}
    IN IF files = {} THEN {<< >>}
       ELSE LET top == CHOOSE f \in files : \A g \in files : g = f \/ StrLess(f, g)
                InTop(r) == r.source_file = top
            IN {ProjectAll(s) : s \in ByChunkIndex(Where(t, {r \in DOMAIN t : InTop(r)}))}

\* RankedBills numbers the rows WHERE "source_file" LIKE '{bill_type}%' by
\* "source_file" DESC, so rn = 1 is one row of the greatest file name; the
\* join returns every row of that file, ORDER BY b."chunk_index"
BillTypeSql(t, bill_type) ==
    LET OfType(r) == r.source_file # Null /\ StartsWith(r.source_file, bill_type)
        files == {r.source_file : r \in {x \in DOMAIN t : OfType(x)}}
    IN IF files = {} THEN {<< >>}
       ELSE LET top == CHOOSE f \in files : \A g \in files : g = f \/ StrLess(g, f)
                InTop(r) == r.source_file = top
            IN {ProjectAll(s) : s \in ByChunkIndex(Where(t, {r \in DOMAIN t : InTop(r)}))}

ByMarker == <<"B","y",":">>

\* RankedChunks gives rn = 1 to one row of lowest chunk_index of each file;
\* the join keeps the rows of every file whose rn = 1 row has
\* "chunk" LIKE '%By:%' AND "chunk" LIKE '%{sponsor_name}%' (LIKE compares
\* case-sensitively); SELECT DISTINCT, ORDER BY "source_file", "chunk_index"
SponsorSql(t, sponsor_name) ==
    LET files == {r.source_file : r \in DOMAIN t}
        FirstRows(f) == {r \in DOMAIN t :
                            /\ r.source_file = f
                            /\ \A x \in DOMAIN t :
                                  x.source_file = f => r.chunk_index <= x.chunk_index}
        Marked(r) == r.chunk # Null /\ Contains(r.chunk, ByMarker)
                        /\ Contains(r.chunk, sponsor_name)
        picks == {m \in SUBSET files :
                    \A f \in files :
                        /\ f \in m => \E r \in FirstRows(f) : Marked(r)
                        /\ f \notin m => \E r \in FirstRows(f) : ~Marked(r)}
        Distinct(m) == {Project(r) : r \in {x \in DOMAIN t : x.source_file \in m}}
        Key(rows) ==
            LET top == CHOOSE m \in {r.chunk_index : r \in rows} :
                           \A r \in rows : r.chunk_index <= m
            IN [r \in rows |->
                   (top + 1) * Cardinality({g \in files : StrLess(g, r.source_file)})
                       + r.chunk_index]
    IN UNION {OrderBy(SetToBag(Distinct(m)), Key(Distinct(m))) : m \in picks}

\* FreeTextSql without its LIMIT: a faulty variant, which C6_FreeText must
\* tell from FreeTextSql
FreeTextSqlUnlimited(t, query, n) ==
    LET Has(r) == r.chunk # Null /\ Contains(r.chunk, query)
    IN {ProjectAll(s) : s \in ByChunkIndex(Where(t, {r \in DOMAIN t : Has(r)}))}

\* WHERE CONTAINS(b."chunk", '{query}') ORDER BY b."chunk_index"
\* LIMIT {num_retrieved_chunks}
FreeTextSql(t, query, n) ==
    LET Has(r) == r.chunk # Null /\ Contains(r.chunk, query)
    IN {ProjectAll(s) : s \in FirstByChunkIndex(Where(t, {r \in DOMAIN t : Has(r)}), n)}

(***************************************************************************)
(* LocalPDFProcessor.extract_metadata_from_first_page: the three searches  *)
(* of the first page's text. A search returns the position where the       *)
(* leftmost match starts (re.search), 0 when there is none.                *)
(***************************************************************************)
\* first_page_text[-500:]
BottomChars == 500
\* first_page_text[:1500]
SubtitleChars == 1500
\* first_page_text[:1000]
SponsorChars == 1000

Least(S) == CHOOSE x \in S : \A y \in S : x <= y
Greatest(S) == CHOOSE x \in S : \A y \in S : x >= y

\* LastChars giving the whole text: a faulty variant, which
\* C16_DateFromBottom must tell from LastChars
WholeText(s, n) == s

\* s[:n] and s[-n:]
FirstChars(s, n) == SubSeq(s, 1, IF n < Len(s) THEN n ELSE Len(s))
LastChars(s, n) == SubSeq(s, IF n < Len(s) THEN Len(s) - n + 1 ELSE 1, Len(s))

\* \d{n} at position i
DigitsAt(s, i, n) == i >= 1 /\ i + n - 1 <= Len(s) /\ \A k \in i..(i + n - 1) : s[k] \in Digit

\* \s+ at position q, before an element that cannot start with whitespace:
\* the position after the whole run, 0 when there is no whitespace at q
SpacesPlus(s, q) ==
    IF q >= 1 /\ q <= Len(s) /\ s[q] \in Whitespace THEN RunEnd(s, q, Whitespace) ELSE 0


\* date_pattern at position i:
\* (\d{2}/\d{2}/\d{4}\s+\d{1,2}:\d{2}:\d{2}\s+(?:AM|PM)\s+WFP\d{3});
\* the position after the match, 0 when it does not match there
DatePatternEnd(s, i) ==
    LET Slash(p) == MatchAt(s, p, <<"/">>)
        Colon(p) == MatchAt(s, p, <<":">>)
        \* \d{1,2}:\d{2}:\d{2} at a (two hour digits are tried first)
        TimeEnd(a) ==
            IF DigitsAt(s, a, 2) /\ Colon(a + 2) /\ DigitsAt(s, a + 3, 2) /\ Colon(a + 5) /\ DigitsAt(s, a + 6, 2)
            THEN a + 8
            ELSE IF DigitsAt(s, a, 1) /\ Colon(a + 1) /\ DigitsAt(s, a + 2, 2) /\ Colon(a + 4) /\ DigitsAt(s, a + 5, 2)
            THEN a + 7
            ELSE 0
        MeridiemEnd(b) == IF AnyAt(s, b, {<<"A","M">>, <<"P","M">>}) THEN b + 2 ELSE 0
        SourceEnd(c) == IF MatchAt(s, c, <<"W","F","P">>) /\ DigitsAt(s, c + 3, 3) THEN c + 6 ELSE 0
    IN IF DigitsAt(s, i, 2) /\ Slash(i + 2) /\ DigitsAt(s, i + 3, 2) /\ Slash(i + 5) /\ DigitsAt(s, i + 6, 4)
       THEN SourceEnd(SpacesPlus(s, MeridiemEnd(SpacesPlus(s, TimeEnd(SpacesPlus(s, i + 10))))))
       ELSE 0

\* str.split(): the maximal runs of characters that are not whitespace
RECURSIVE SplitFrom(_, _)
SplitFrom(s, p) ==
    LET b == RunEnd(s, p, Whitespace)
        e == Least({k \in b..(Len(s) + 1) : k > Len(s) \/ s[k] \in Whitespace})
    IN IF b > Len(s) THEN << >> ELSE <<SubSeq(s, b, e - 1)>> \o SplitFrom(s, e)
Split(s) == SplitFrom(s, 1)

\* ' '.join(tokens)
RECURSIVE Join(_)
Join(tokens) ==
    IF tokens = << >> THEN << >>
    ELSE IF Len(tokens) = 1 THEN tokens[1]
    ELSE tokens[1] \o <<" ">> \o Join(Tail(tokens))

\* pd.to_datetime of 'dd/dd/dddd d?d:dd:dd AM|PM': <<year, month, day, hour,
\* minute, second>>, or Null where the parser raises. The first number is
\* the month unless it is greater than 12, in which case it is the day; the
\* hour is one of a 12-hour clock; the year is one a Timestamp can hold
\* (1677 and 2262, which it holds in part, are taken as outside).
ToDatetime(s) ==
    LET t == Split(s)
        a == ParseNumber(SubSeq(t[1], 1, 2))
        b == ParseNumber(SubSeq(t[1], 4, 5))
        year == ParseNumber(SubSeq(t[1], 7, 10))
        hl == Len(t[2]) - 6
        hour == ParseNumber(SubSeq(t[2], 1, hl))
        minute == ParseNumber(SubSeq(t[2], hl + 2, hl + 3))
        second == ParseNumber(SubSeq(t[2], hl + 5, hl + 6))
        month == IF a > 12 THEN b ELSE a
        day == IF a > 12 THEN a ELSE b
        leap == year % 4 = 0 /\ (year % 100 # 0 \/ year % 400 = 0)
        days == IF month = 2 THEN (IF leap THEN 29 ELSE 28)
                ELSE IF month \in {4, 6, 9, 11} THEN 30 ELSE 31
        hour24 == (hour % 12) + (IF t[3] = <<"P","M">> THEN 12 ELSE 0)
    IN IF /\ year \in 1678..2261 /\ month \in 1..12 /\ day \in 1..days
          /\ hour \in 1..12 /\ minute < 60 /\ second < 60
       THEN <<year, month, day, hour24, minute, second>>
       ELSE Null

\* lines 29-40: the search in bottom_text, the source code (last token)
\* dropped from the match, the rest parsed; the except leaves date_filed None
ExtractDateFiled(bottom_text) ==
    LET starts == {i \in 1..Len(bottom_text) : DatePatternEnd(bottom_text, i) > 0}
        date_str == SubSeq(bottom_text, Least(starts), DatePatternEnd(bottom_text, Least(starts)) - 1)
        tokens == Split(date_str)
    IN IF starts = {} THEN Null
       ELSE ToDatetime(Join(SubSeq(tokens, 1, Len(tokens) - 1)))

\* FirstMatch giving the empty text where no pattern matched: a faulty
\* variant, which C11_NoMatchGivesNulls must tell from FirstMatch
FirstMatchOrEmpty(m1, m2, m3) ==
    IF m1[1] THEN m1[2] ELSE IF m2[1] THEN m2[2] ELSE IF m3[1] THEN m3[2] ELSE << >>

\* the loop over a list of three patterns with its break: the group of
\* the first pattern that matched, None when none did
FirstMatch(m1, m2, m3) ==
    IF m1[1] THEN m1[2] ELSE IF m2[1] THEN m2[2] ELSE IF m3[1] THEN m3[2] ELSE Null

\* subtitle_patterns[n] at position i: where group 1 starts, 0 when the
\* pattern does not match at i
\*   1: SUBTITLE:?\s*([^\n]+)      2: Subtitle:?\s*([^\n]+)
\*   3: SUBTITLE\s+(?:OF\s+)?(?:THE\s+)?(?:BILL)?:?\s*([^\n]+)
\* In pattern 3 an optional word is taken when the rest then matches. A \s+
\* that reaches the end of the text is followed by the group alone, which
\* then starts at the last character that is not a newline, after at least
\* one whitespace character.
SubtitleGroupAt(s, n, i) ==
    LET SUBTITLE == <<"S","U","B","T","I","T","L","E">>
        Subtitle == <<"S","u","b","t","i","t","l","e">>
        \* \s*([^\n]+) at q: \s* takes the whole run of whitespace; where
        \* the run reaches the end of the text it gives characters back
        \* until the group has one that is not a newline
        RestOfLine(q) ==
            LET w == RunEnd(s, q, Whitespace)
                ks == {k \in q..Len(s) : s[k] # "\n"}
            IN IF w <= Len(s) THEN w ELSE IF ks = {} THEN 0 ELSE Greatest(ks)
        \* :?\s*([^\n]+) at p: the colon is taken when the rest then
        \* matches; otherwise the group starts at p
        ColonRest(p) ==
            IF MatchAt(s, p, <<":">>)
            THEN IF RestOfLine(p + 1) > 0 THEN RestOfLine(p + 1) ELSE p
            ELSE RestOfLine(p)
        AtEnd(q) == LET ks == {k \in (q + 1)..Len(s) : s[k] # "\n"}
                    IN IF ks = {} THEN 0 ELSE Greatest(ks)
        BillPart(a) ==
            IF MatchAt(s, a, <<"B","I","L","L">>) /\ ColonRest(a + 4) > 0
            THEN ColonRest(a + 4) ELSE ColonRest(a)
        SpacesBill(q) ==
            IF SpacesPlus(s, q) = 0 THEN 0
            ELSE IF SpacesPlus(s, q) <= Len(s) THEN BillPart(SpacesPlus(s, q)) ELSE AtEnd(q)
        ThePart(a) ==
            IF MatchAt(s, a, <<"T","H","E">>) /\ SpacesBill(a + 3) > 0
            THEN SpacesBill(a + 3) ELSE BillPart(a)
        SpacesThe(q) ==
            IF SpacesPlus(s, q) = 0 THEN 0
            ELSE IF SpacesPlus(s, q) <= Len(s) THEN ThePart(SpacesPlus(s, q)) ELSE AtEnd(q)
        OfPart(a) ==
            IF MatchAt(s, a, <<"O","F">>) /\ SpacesThe(a + 2) > 0
            THEN SpacesThe(a + 2) ELSE ThePart(a)
        SpacesOf(q) ==
            IF SpacesPlus(s, q) = 0 THEN 0
            ELSE IF SpacesPlus(s, q) <= Len(s) THEN OfPart(SpacesPlus(s, q)) ELSE AtEnd(q)
    IN CASE n = 1 -> IF MatchAt(s, i, SUBTITLE) THEN ColonRest(i + 8) ELSE 0
         [] n = 2 -> IF MatchAt(s, i, Subtitle) THEN ColonRest(i + 8) ELSE 0
         [] n = 3 -> IF MatchAt(s, i, SUBTITLE) THEN SpacesOf(i + 8) ELSE 0

\* re.search(subtitle_patterns[n], text): <<TRUE, group(1).strip()>>, or
\* <<FALSE>> when the pattern matches nowhere
SubtitleSearch(text, n) ==
    LET starts == {i \in 1..Len(text) : SubtitleGroupAt(text, n, i) > 0}
        g == SubtitleGroupAt(text, n, Least(starts))
        \* [^\n]+ is greedy: the group ends where its line ends
        e == Least({k \in g..(Len(text) + 1) : k > Len(text) \/ text[k] = "\n"})
    IN IF starts = {} THEN <<FALSE>>
       ELSE <<TRUE, Strip(SubSeq(text, g, e - 1))>>

\* ExtractSubtitle with the second pattern tried before the first: a faulty
\* variant, which C15_SubtitleOfFirstPattern must tell from ExtractSubtitle
ExtractSubtitleSecondFirst(text) ==
    FirstMatch(SubtitleSearch(text, 2), SubtitleSearch(text, 1), SubtitleSearch(text, 3))

\* lines 42-54: the first pattern of the list that matches gives the subtitle
ExtractSubtitle(text) ==
    FirstMatch(SubtitleSearch(text, 1), SubtitleSearch(text, 2), SubtitleSearch(text, 3))

\* ([A-Z][A-Za-z\s,.-]+?)(?:\n|,|\s{2,}) at position c: the position after
\* the group, 0 when it does not match. The group is a capital letter and
\* the fewest characters of the class, at least one, that bring it to a
\* newline, a comma or two whitespace characters.
SponsorGroupEnd(s, c) ==
    LET \* [A-Za-z\s,.-]
        SponsorNameChar == Letter \cup Whitespace \cup {",", ".", "-"}
        b == Least({k \in (c + 1)..(Len(s) + 1) : k > Len(s) \/ s[k] \notin SponsorNameChar})
        StopAt(e) == \/ s[e] \in {"\n", ","}
                     \/ s[e] \in Whitespace /\ e + 1 <= Len(s) /\ s[e + 1] \in Whitespace
        es == {e \in (c + 2)..(b - 1) : StopAt(e)}
    IN IF c >= 1 /\ c <= Len(s) /\ s[c] \in Range(UpperLetters) /\ es # {} THEN Least(es) ELSE 0

\* sponsor_patterns[n] at position i, each followed by the group and its
\* terminator: where group 1 starts, 0 when the pattern does not match at i
\*   1: By(?:\sRepresentative|\sSenator)\s+     2: Sponsored by:\s*
\*   3: SPONSOR(?:ED)?\s*(?:BY)?\s*:?\s*
\* In pattern 3 an optional part is taken when the rest then matches.
SponsorGroupAt(s, n, i) ==
    LET Titles == {<<"R","e","p","r","e","s","e","n","t","a","t","i","v","e">>, <<"S","e","n","a","t","o","r">>}
        SponsoredBy == <<"S","p","o","n","s","o","r","e","d"," ","b","y",":">>
        SPONSOR == <<"S","P","O","N","S","O","R">>
        Name(c) == IF SponsorGroupEnd(s, c) > 0 THEN c ELSE 0
        ColonPart(a) ==
            IF MatchAt(s, a, <<":">>) /\ Name(RunEnd(s, a + 1, Whitespace)) > 0
            THEN RunEnd(s, a + 1, Whitespace) ELSE Name(a)
        ByPart(a) ==
            IF MatchAt(s, a, <<"B","Y">>) /\ ColonPart(RunEnd(s, a + 2, Whitespace)) > 0
            THEN ColonPart(RunEnd(s, a + 2, Whitespace)) ELSE ColonPart(a)
        Title(p) ==
            IF AnyAt(s, p, Titles)
            THEN Name(SpacesPlus(s, p + Len(CHOOSE w \in Titles : MatchAt(s, p, w))))
            ELSE 0
    IN CASE n = 1 -> IF MatchAt(s, i, <<"B","y">>) /\ i + 2 <= Len(s) /\ s[i + 2] \in Whitespace
                     THEN Title(i + 3) ELSE 0
         [] n = 2 -> IF MatchAt(s, i, SponsoredBy) THEN Name(RunEnd(s, i + Len(SponsoredBy), Whitespace)) ELSE 0
         [] n = 3 -> IF ~MatchAt(s, i, SPONSOR) THEN 0
                     ELSE IF MatchAt(s, i + 7, <<"E","D">>) /\ ByPart(RunEnd(s, i + 9, Whitespace)) > 0
                     THEN ByPart(RunEnd(s, i + 9, Whitespace))
                     ELSE ByPart(RunEnd(s, i + 7, Whitespace))

\* re.search(sponsor_patterns[n], text): <<TRUE, group(1).strip()>>, or
\* <<FALSE>> when the pattern matches nowhere
SponsorSearch(text, n) ==
    LET starts == {i \in 1..Len(text) : SponsorGroupAt(text, n, i) > 0}
        g == SponsorGroupAt(text, n, Least(starts))
    IN IF starts = {} THEN <<FALSE>>
       ELSE <<TRUE, Strip(SubSeq(text, g, SponsorGroupEnd(text, g) - 1))>>

\* lines 56-68: the first pattern of the list that matches gives the sponsor
ExtractSponsor(text) ==
    FirstMatch(SponsorSearch(text, 1), SponsorSearch(text, 2), SponsorSearch(text, 3))

NoMetadata == [date_filed |-> Null, bill_subtitle |-> Null, bill_sponsor |-> Null]

\* pages: the text of each page of the PDF, as extract_text returns it
extract_metadata_from_first_page(pages) ==
    IF Len(pages) > 0
    THEN [date_filed |-> ExtractDateFiled(LastChars(pages[1], BottomChars)),
          bill_subtitle |-> ExtractSubtitle(FirstChars(pages[1], SubtitleChars)),
          bill_sponsor |-> ExtractSponsor(FirstChars(pages[1], SponsorChars))]
    ELSE NoMetadata

(***************************************************************************)
(* query_cortex_search_service: grouping of the rows into spans            *)
(***************************************************************************)
\* Python truthiness of a string or None
Truthy(x) == x # Null /\ x # << >>

UnknownBill == <<"U","n","k","n","o","w","n"," ","B","i","l","l">>

\* bill_name: source_file.replace('.pdf', ''), or 'Unknown Bill'
BillName(source_file) ==
    IF Truthy(source_file) THEN Replace(source_file, PdfExt, << >>) ELSE UnknownBill

(***************************************************************************)
(* The header of a span: get_bill_url, format_bill_reference,              *)
(* extract_bill_info_from_chunk and format_bill_header                     *)
(***************************************************************************)
get_bill_url(bill_name) ==
    <<"h","t","t","p","s",":","/","/","a","r","k","l","e","g",".","s","t","a","t","e",".","a","r",".","u","s","/","H","o","m","e","/","F","T","P","D","o","c","u","m","e","n","t","?","p","a","t","h","=","%","2","F","B","i","l","l","s","%","2","F","2","0","2","5","R","%","2","F","P","u","b","l","i","c","%","2","F">> \o bill_name \o PdfExt

\* f"[{bill_name}]({url})"
format_bill_reference(bill_name) ==
    <<"[">> \o bill_name \o <<"]", "(">> \o get_bill_url(bill_name) \o <<")">>

\* re.search(r'By:\s*(Senator[s]?\s+[^\\n]+)', chunk): group(1).strip(), or
\* Null. In the raw string [^\\n] is any character but a backslash and the
\* letter n. \s+ takes the whole run of whitespace and gives its last
\* character to the class when the run is followed by none of the class.
ChunkSponsor(chunk) ==
    LET By == <<"B","y",":">>
        SenatorWord == <<"S","e","n","a","t","o","r">>
        ClassEnd(w) == Least({k \in w..(Len(chunk) + 1) : k > Len(chunk) \/ chunk[k] \in {"\\", "n"}})
        \* \s+[^\\n]+ at q: the position after it, 0 when it does not match
        NameEnd(q) ==
            IF SpacesPlus(chunk, q) = 0 THEN 0
            ELSE IF ClassEnd(SpacesPlus(chunk, q)) > SpacesPlus(chunk, q)
            THEN ClassEnd(SpacesPlus(chunk, q))
            ELSE IF SpacesPlus(chunk, q) - q >= 2 THEN SpacesPlus(chunk, q) ELSE 0
        \* Senator[s]?\s+[^\\n]+ at a
        GroupEnd(a) ==
            IF ~MatchAt(chunk, a, SenatorWord) THEN 0
            ELSE IF MatchAt(chunk, a + 7, <<"s">>) /\ NameEnd(a + 8) > 0 THEN NameEnd(a + 8)
            ELSE NameEnd(a + 7)
        GroupAt(i) == IF MatchAt(chunk, i, By) THEN RunEnd(chunk, i + 3, Whitespace) ELSE 0
        starts == {i \in 1..Len(chunk) : GroupEnd(GroupAt(i)) > 0}
    IN IF starts = {} THEN Null
       ELSE Strip(SubSeq(chunk, GroupAt(Least(starts)), GroupEnd(GroupAt(Least(starts))) - 1))

\* re.search(r'Subtitle\s*\n((?:[^\n]+\n?)+?)(?=\n\s*\n|BE IT ENACTED)', chunk):
\* group(1).strip(), or Null. The group starts after a newline of the
\* whitespace that follows 'Subtitle' (the last one is tried first) and is
\* made of lines that are not empty. The end of the group is tried first
\* after each of its lines in turn, as far as the lines go, then at every
\* other position from the last one backwards.
ChunkSubtitle(chunk) ==
    LET Subtitle == <<"S","u","b","t","i","t","l","e">>
        Ahead(e) ==
            \/ MatchAt(chunk, e, <<"B","E"," ","I","T"," ","E","N","A","C","T","E","D">>)
            \/ /\ MatchAt(chunk, e, <<"\n">>)
               /\ \E m \in (e + 1)..(RunEnd(chunk, e + 1, Whitespace) - 1) : chunk[m] = "\n"
        \* the newline that ends the last line of the group that starts at g
        \* (the position after the text, if it ends in that line)
        LinesEnd(g) ==
            Least({p \in (g + 1)..(Len(chunk) + 1) :
                      \/ p > Len(chunk)
                      \/ chunk[p] = "\n" /\ (p + 1 > Len(chunk) \/ chunk[p + 1] = "\n")})
        AfterLines(g) == {p \in (g + 2)..(LinesEnd(g) + 1) : p <= Len(chunk) /\ chunk[p - 1] = "\n" /\ Ahead(p)}
        Elsewhere(g) == {p \in (g + 1)..LinesEnd(g) : p <= Len(chunk) /\ Ahead(p)}
        \* the group that starts at g: the position after it, 0 if none
        GroupEnd(g) ==
            IF g > Len(chunk) \/ chunk[g] = "\n" THEN 0
            ELSE IF AfterLines(g) # {} THEN Least(AfterLines(g))
            ELSE IF Elsewhere(g) # {} THEN Greatest(Elsewhere(g))
            ELSE 0
        \* where the group can start when 'Subtitle' ends before q
        Starts(q) == {n + 1 : n \in {n \in q..(RunEnd(chunk, q, Whitespace) - 1) :
                                         chunk[n] = "\n" /\ GroupEnd(n + 1) > 0}}
        GroupAt(i) ==
            IF MatchAt(chunk, i, Subtitle) /\ Starts(i + 8) # {} THEN Greatest(Starts(i + 8)) ELSE 0
        starts == {i \in 1..Len(chunk) : GroupAt(i) > 0}
    IN IF starts = {} THEN Null
       ELSE Strip(SubSeq(chunk, GroupAt(Least(starts)), GroupEnd(GroupAt(Least(starts))) - 1))

\* re.search(r'(\d{2}/\d{2}/\d{4})', chunk): group(1), or Null
ChunkDate(chunk) ==
    LET At(i) == /\ DigitsAt(chunk, i, 2) /\ MatchAt(chunk, i + 2, <<"/">>)
                 /\ DigitsAt(chunk, i + 3, 2) /\ MatchAt(chunk, i + 5, <<"/">>)
                 /\ DigitsAt(chunk, i + 6, 4)
        starts == {i \in 1..Len(chunk) : At(i)}
    IN IF starts = {} THEN Null ELSE SubSeq(chunk, Least(starts), Least(starts) + 9)

\* re.sub(r'\s+', ' ', s): every run of whitespace becomes one space
RECURSIVE CollapseFrom(_, _)
CollapseFrom(s, p) ==
    IF p > Len(s) THEN << >>
    ELSE IF s[p] \in Whitespace THEN <<" ">> \o CollapseFrom(s, RunEnd(s, p, Whitespace))
    ELSE LET e == Least({k \in p..(Len(s) + 1) : k > Len(s) \/ s[k] \in Whitespace})
         IN SubSeq(s, p, e - 1) \o CollapseFrom(s, e)

\* re.search(r'AN ACT\s+(.+?)(?=\n\s*\n\s*Subtitle|BE IT ENACTED)', chunk,
\* re.DOTALL): group(1).strip() with its whitespace collapsed, or Null.
\* \s+ takes the whole run of whitespace and the group ends at the first
\* position after its first character where the lookahead holds; if there
\* is none, \s+ gives characters back and the group is one whitespace
\* character before a position of the run where the lookahead holds.
ChunkSummary(chunk) ==
    LET Ahead(e) ==
            \/ MatchAt(chunk, e, <<"B","E"," ","I","T"," ","E","N","A","C","T","E","D">>)
            \/ /\ MatchAt(chunk, e, <<"\n">>)
               /\ \E m \in (e + 1)..(RunEnd(chunk, e + 1, Whitespace) - 1) : chunk[m] = "\n"
               /\ MatchAt(chunk, RunEnd(chunk, e + 1, Whitespace), <<"S","u","b","t","i","t","l","e">>)
        Forward(w) == {e \in (w + 1)..Len(chunk) : Ahead(e)}
        Back(q, w) == {e \in (q + 2)..w : Ahead(e)}
        \* <<start of the group, position after it>> when \s+ starts at q
        \* and its run ends before w; << >> when there is no match
        Group(q, w) ==
            IF w = 0 THEN << >>
            ELSE IF Forward(w) # {} THEN <<w, Least(Forward(w))>>
            ELSE IF Back(q, w) # {} THEN <<Greatest(Back(q, w)) - 1, Greatest(Back(q, w))>>
            ELSE << >>
        GroupAt(i) == IF MatchAt(chunk, i, <<"A","N"," ","A","C","T">>) THEN Group(i + 6, SpacesPlus(chunk, i + 6)) ELSE << >>
        starts == {i \in 1..Len(chunk) : GroupAt(i) # << >>}
        g == GroupAt(Least(starts))
    IN IF starts = {} THEN Null
       ELSE CollapseFrom(Strip(SubSeq(chunk, g[1], g[2] - 1)), 1)

UnknownSponsor == <<"U","n","k","n","o","w","n"," ","S","p","o","n","s","o","r">>

extract_bill_info_from_chunk(chunk) ==
    [sponsor |-> IF ChunkSponsor(chunk) # Null THEN ChunkSponsor(chunk) ELSE UnknownSponsor,
     subtitle |-> ChunkSubtitle(chunk),
     date_filed |-> ChunkDate(chunk),
     summary |-> ChunkSummary(chunk)]

\* sep.join(parts)
RECURSIVE JoinWith(_, _)
JoinWith(parts, sep) ==
    IF parts = << >> THEN << >>
    ELSE IF Len(parts) = 1 THEN parts[1]
    ELSE parts[1] \o sep \o JoinWith(Tail(parts), sep)

format_bill_header(bill_name, bill_info) ==
    LET Part(shown, label, value) == IF shown THEN <<label \o value>> ELSE << >>
        meta_parts ==
            Part(Truthy(bill_info.sponsor), <<"*","*","S","p","o","n","s","o","r","*","*",":"," ">>, bill_info.sponsor)
            \o Part(Truthy(bill_info.date_filed), <<"*","*","F","i","l","e","d","*","*",":"," ">>, bill_info.date_filed)
        header_parts ==
            <<<<"#","#"," ">> \o format_bill_reference(bill_name)>>
            \o Part(Truthy(bill_info.summary), <<"*","*","S","u","m","m","a","r","y","*","*",":"," ">>, bill_info.summary)
            \o Part(Truthy(bill_info.subtitle)
                        /\ (~Truthy(bill_info.summary) \/ bill_info.subtitle # bill_info.summary),
                    <<"*","*","S","u","b","t","i","t","l","e","*","*",":"," ">>, bill_info.subtitle)
            \o (IF meta_parts # << >> THEN <<JoinWith(meta_parts, <<" ","|"," ">>)>> ELSE << >>)
    IN JoinWith(header_parts, <<"\n","\n">>)

(***************************************************************************)
(* query_cortex_search_service: the spans                                  *)
(***************************************************************************)
\* one element of context_parts, f"{header}\n\n{full_text}\n": the bill, its
\* chunks (full_text is the chunks joined with newlines) and the header
Span(bill, chunks) ==
    [bill |-> bill, chunks |-> chunks,
     header |-> format_bill_header(bill, extract_bill_info_from_chunk(JoinWith(chunks, <<"\n">>)))]

\* the loop `for r in results` and the flush after it: context_parts
RECURSIVE FormatResults(_, _, _, _, _)
FormatResults(results, i, context_parts, current_bill, bill_chunks) ==
    IF i > Len(results)
    THEN IF Truthy(current_bill) /\ bill_chunks # << >>
         THEN Append(context_parts, Span(current_bill, bill_chunks))
         ELSE context_parts
    ELSE IF ~Truthy(results[i].chunk)
    THEN FormatResults(results, i + 1, context_parts, current_bill, bill_chunks)
    ELSE LET bill_name == BillName(results[i].source_file)
             flush == Truthy(current_bill) /\ current_bill # bill_name
                         /\ bill_chunks # << >>
         IN FormatResults(results, i + 1,
                IF flush THEN Append(context_parts, Span(current_bill, bill_chunks))
                         ELSE context_parts,
                bill_name,
                IF flush THEN <<results[i].chunk>>
                         ELSE Append(bill_chunks, results[i].chunk))

ContextParts(results) == FormatResults(results, 1, << >>, Null, << >>)

(***************************************************************************)
(* The questions asked of the app                                          *)
(***************************************************************************)
\* questions typed into the chat input
\* "What's in Senate Bill 8?"
Q_senate_bill_8 == <<"W","h","a","t","'","s"," ","i","n"," ","S","e","n","a","t","e"," ","B","i","l","l"," ","8","?">>
\* "Show me a recent House Bill"
Q_recent_house_bill == <<"S","h","o","w"," ","m","e"," ","a"," ","r","e","c","e","n","t"," ","H","o","u","s","e"," ","B","i","l","l">>
\* "What bills has Senator Payton filed?"
Q_payton_filed == <<"W","h","a","t"," ","b","i","l","l","s"," ","h","a","s"," ","S","e","n","a","t","o","r"," ","P","a","y","t","o","n"," ","f","i","l","e","d","?">>
\* "bills by Senator Payton"
Q_bills_by_payton == <<"b","i","l","l","s"," ","b","y"," ","S","e","n","a","t","o","r"," ","P","a","y","t","o","n">>
\* "any bills by Jane Payton?"
Q_any_bills_by == <<"a","n","y"," ","b","i","l","l","s"," ","b","y"," ","J","a","n","e"," ","P","a","y","t","o","n","?">>
\* "bills by senator payton"
Q_lower_payton == <<"b","i","l","l","s"," ","b","y"," ","s","e","n","a","t","o","r"," ","p","a","y","t","o","n">>
\* "hb45 vs SB8"
Q_two_bills == <<"h","b","4","5"," ","v","s"," ","S","B","8">>
\* "tell me about hb 9"
Q_hb_9 == <<"t","e","l","l"," ","m","e"," ","a","b","o","u","t"," ","h","b"," ","9">>
\* "latest sb by Senator Payton"
Q_latest_sb_by == <<"l","a","t","e","s","t"," ","s","b"," ","b","y"," ","S","e","n","a","t","o","r"," ","P","a","y","t","o","n">>
\* "my senator  ?"
Q_blank_senator == <<"m","y"," ","s","e","n","a","t","o","r"," "," ","?">>
\* "tax"
Q_tax == <<"t","a","x">>
\* "Payton"
Q_payton == <<"P","a","y","t","o","n">>
\* "zoning"
Q_zoning == <<"z","o","n","i","n","g">>

Questions == {Q_senate_bill_8,
              Q_recent_house_bill,
              Q_payton_filed,
              Q_bills_by_payton,
              Q_any_bills_by,
              Q_lower_payton,
              Q_two_bills,
              Q_hb_9,
              Q_latest_sb_by,
              Q_blank_senator,
              Q_tax,
              Q_payton,
              Q_zoning}

\* main: question = question.replace("'", "")
StripQuotes(question) == Replace(question, <<"'">>, << >>)

\* the queries main passes to query_cortex_search_service
Queries == {StripQuotes(question) : question \in Questions}

(***************************************************************************)
(* query_cortex_search_service: the whole call                             *)
(***************************************************************************)
\* the context a call returns: a str ("\n---\n".join(parts); "" has no
\* parts) or a list
Str(parts) == [type |-> "str", parts |-> parts]
List(parts) == [type |-> "list", parts |-> parts]

\* SelectMode with the sponsor rule tried before the bill-type rule: a
\* faulty variant, which C1_FirstMatchingRuleWins must tell from SelectMode
SelectModeSponsorFirst(bill_query, bill_type, sponsor_name) ==
    IF Truthy(bill_query)
    THEN [mode |-> "bill", bill_query |-> bill_query, bill_type |-> Null,
          sponsor_name |-> Null]
    ELSE IF Truthy(sponsor_name)
    THEN [mode |-> "sponsor", bill_query |-> Null, bill_type |-> Null,
          sponsor_name |-> sponsor_name]
    ELSE IF Truthy(bill_type)
    THEN [mode |-> "type", bill_query |-> Null, bill_type |-> bill_type,
          sponsor_name |-> Null]
    ELSE [mode |-> "text", bill_query |-> Null, bill_type |-> Null,
          sponsor_name |-> sponsor_name]

\* the retrieval mode the if/else chain selects and the values it binds
SelectMode(bill_query, bill_type, sponsor_name) ==
    IF Truthy(bill_query)
    THEN [mode |-> "bill", bill_query |-> bill_query, bill_type |-> Null,
          sponsor_name |-> Null]
    ELSE IF Truthy(bill_type)
    THEN [mode |-> "type", bill_query |-> Null, bill_type |-> bill_type,
          sponsor_name |-> Null]
    ELSE IF Truthy(sponsor_name)
    THEN [mode |-> "sponsor", bill_query |-> Null, bill_type |-> Null,
          sponsor_name |-> sponsor_name]
    ELSE [mode |-> "text", bill_query |-> Null, bill_type |-> Null,
          sponsor_name |-> sponsor_name]

Classify(query) ==
    SelectMode(ExtractBillQuery(query), ExtractBillType(query), ExtractSponsorName(query))

\* Classify of every query of the model
Classification == [query \in Queries |-> Classify(query)]

\* query_sql of the selected mode, run on table t
RetrievalSql(t, query, c, n) ==
    CASE c.mode = "bill" -> SpecificBillSql(t, c.bill_query, n)
      [] c.mode = "type" -> BillTypeSql(t, c.bill_type)
      [] c.mode = "sponsor" -> SponsorSql(t, c.sponsor_name)
      [] c.mode = "text" -> FreeTextSql(t, query, n)

\* the summary put in front of context_parts
Summary(c, context_parts) ==
    CASE c.mode = "bill" -> <<[summary |-> "bill"]>>
      [] c.mode = "type" -> <<[summary |-> "type", bill_type |-> c.bill_type]>>
      [] c.mode = "sponsor" -> <<[summary |-> "sponsor", bill_count |-> Len(context_parts),
                                  sponsor_name |-> c.sponsor_name]>>
      [] c.mode = "text" -> << >>

\* the storage calls (session.sql(...).collect()) a call may make, in order
StorageCalls == {"row_count", "available_bills", "debug_count", "retrieval", "table_info"}

Unclassified == [mode |-> Null, bill_query |-> Null, bill_type |-> Null, sponsor_name |-> Null]

Outcome(c, calls, results, context_parts, context, rows) ==
    [mode |-> c.mode, bill_query |-> c.bill_query, bill_type |-> c.bill_type,
     sponsor_name |-> c.sponsor_name, calls |-> calls, results |-> results,
     context_parts |-> context_parts, context |-> context, rows |-> rows,
     raised |-> FALSE]

\* `except Exception` around the whole body: return "", []
OuterExcept(c, calls) == Outcome(c, calls, << >>, << >>, Str(<< >>), << >>)

\* `except Exception` around the available-bills check: return [], []
AvailableBillsExcept(c, calls) == Outcome(c, calls, << >>, << >>, List(<< >>), << >>)

\* AfterRetrieval returning the rows when no row had chunk text: a faulty
\* variant, which C21_RowsIffContext must tell from AfterRetrieval
AfterRetrievalKeepsRows(c, calls, results, debug, fail) ==
    IF results = << >>
    THEN IF debug
         THEN IF fail = "table_info"
              THEN OuterExcept(c, Append(calls, "table_info"))
              ELSE Outcome(c, Append(calls, "table_info"), results, << >>, Str(<< >>), << >>)
         ELSE Outcome(c, calls, results, << >>, Str(<< >>), << >>)
    ELSE LET context_parts == ContextParts(results)
         IN IF context_parts = << >>
            THEN Outcome(c, calls, results, context_parts, Str(<< >>), results)
            ELSE Outcome(c, calls, results, context_parts,
                         Str(Summary(c, context_parts) \o context_parts), results)

\* what the call does after its retrieval query returned results
AfterRetrieval(c, calls, results, debug, fail) ==
    IF results = << >>
    THEN IF debug
         THEN IF fail = "table_info"
              THEN OuterExcept(c, Append(calls, "table_info"))
              ELSE Outcome(c, Append(calls, "table_info"), results, << >>, Str(<< >>), << >>)
         ELSE Outcome(c, calls, results, << >>, Str(<< >>), << >>)
    ELSE LET context_parts == ContextParts(results)
         IN IF context_parts = << >>
            THEN Outcome(c, calls, results, context_parts, Str(<< >>), << >>)
            ELSE Outcome(c, calls, results, context_parts,
                         Str(Summary(c, context_parts) \o context_parts), results)

\* the call from its classification c on: the debug count, the retrieval
\* query and what follows it
Retrieve(t, query, c, n, debug, fail) ==
    LET checked == IF c.mode = "bill" /\ debug
                   THEN <<"row_count", "available_bills", "debug_count">>
                   ELSE <<"row_count", "available_bills">>
        calls == Append(checked, "retrieval")
    IN IF fail = "debug_count" THEN {OuterExcept(c, checked)}
       ELSE IF fail = "retrieval" THEN {OuterExcept(c, calls)}
       ELSE {AfterRetrieval(c, calls, results, debug, fail) :
                 results \in {r \in RetrievalSql(t, query, c, n) :
                                 fail = "table_info" => r = << >>}}

\* the possible outcomes of query_cortex_search_service(query) on table t
\* with st.session_state.num_retrieved_chunks = n and .debug = debug, when
\* the storage call `fail` raises ("none": no call raises)
query_cortex_search_service(t, query, n, debug, fail) ==
    IF fail = "row_count" THEN {OuterExcept(Unclassified, <<"row_count">>)}
    ELSE IF fail = "available_bills"
    THEN {AvailableBillsExcept(Unclassified, <<"row_count", "available_bills">>)}
    ELSE Retrieve(t, query, Classification[query], n, debug, fail)

\* the storage call `fail` is one that a call of classification c makes
MakesCall(t, query, c, n, debug, fail) ==
    CASE fail \in {"none", "row_count", "available_bills", "retrieval"} -> TRUE
      [] fail = "debug_count" -> debug /\ c.mode = "bill"
      [] fail = "table_info" -> debug /\ << >> \in RetrievalSql(t, query, c, n)

Raises(t, query, n, debug, fail) ==
    MakesCall(t, query, Classification[query], n, debug, fail)

(***************************************************************************)
(* The chat turn: get_chat_history, get_bill_stats, create_prompt          *)
(***************************************************************************)
\* Python's s[start:stop]
PySlice(s, start, stop) ==
    LET Index(i) == IF i < 0 THEN (IF i + Len(s) < 0 THEN 0 ELSE i + Len(s))
                    ELSE IF i > Len(s) THEN Len(s) ELSE i
    IN SubSeq(s, Index(start) + 1, Index(stop))

\* get_chat_history with the slice running to the end of the messages: a
\* faulty variant, which C20_HistoryWindow must tell from get_chat_history
get_chat_history_to_end(messages, num_chat_messages) ==
    LET start_index == IF Len(messages) - num_chat_messages > 0
                       THEN Len(messages) - num_chat_messages ELSE 0
    IN PySlice(messages, start_index, Len(messages))

get_chat_history(messages, num_chat_messages) ==
    LET start_index == IF Len(messages) - num_chat_messages > 0
                       THEN Len(messages) - num_chat_messages ELSE 0
    IN PySlice(messages, start_index, Len(messages) - 1)

\* get_bill_stats: COUNT(DISTINCT "source_file") and MAX("date_filed") of the
\* table, or zero and None when the query raised
get_bill_stats(t) ==
    LET files == {r.source_file : r \in DOMAIN t} \ {Null}
        dates == {r.date_filed : r \in DOMAIN t} \ {Null}
        Before(a, b) == \E k \in 1..6 : a[k] < b[k] /\ \A j \in 1..(k - 1) : a[j] = b[j]
    IN {[total_bills |-> Cardinality(files),
         latest_file_date |-> IF dates = {} THEN Null
                              ELSE CHOOSE d \in dates : \A e \in dates : ~Before(d, e)],
        [total_bills |-> 0, latest_file_date |-> Null]}

\* processed_context: for every result that has the key 'SOURCE_FILE'
\* (has_key: whether the rows of the backend answer the membership test),
\* the bill name is replaced by its reference, one replacement after the
\* other
ProcessContext(prompt_context, results, has_key) ==
    [prompt_context |-> prompt_context,
     replaced |-> IF has_key
                  THEN [i \in 1..Len(results) |->
                           LET bill_name == BillName(results[i].source_file)
                           IN <<bill_name, format_bill_reference(bill_name)>>]
                  ELSE << >>]

\* the possible outcomes of create_prompt(user_question). chat_history is
\* assigned only under `if st.session_state.use_chat_history`: without it
\* the f-string of the prompt reads an unbound local and raises.
create_prompt(t, session, user_question, n, debug, fail, has_key) ==
    IF session.use_chat_history
    THEN LET history == get_chat_history(session.messages, session.num_chat_messages)
         IN {[raised |-> FALSE, history |-> history, retrieved |-> TRUE,
              prompt |-> [bill_stats |-> bill_stats,
                          chat_history |-> IF history = << >> THEN Str(<< >>) ELSE List(history),
                          processed_context |-> ProcessContext(out.context, out.rows, has_key),
                          user_question |-> user_question],
              results |-> out.rows] :
                 out \in query_cortex_search_service(t, user_question, n, debug, fail),
                 bill_stats \in get_bill_stats(t)}
    ELSE {[raised |-> TRUE, history |-> Null, retrieved |-> FALSE, prompt |-> Null,
           results |-> Null]}

(***************************************************************************)
(* The state machine                                                       *)
(***************************************************************************)
\* st.session_state.num_retrieved_chunks is set by a slider from 1 to 10;
\* the model draws it from 1..NumChunksMax
NumChunksMax == 3
\* load_bills_to_snowflake runs at most MaxLoads times
MaxLoads == 2
\* save_chunks_to_csv is applied to chunk sequences of at most MaxChunks chunks
MaxChunks == 3

NoCall == [question |-> Null]
NoSave == [pdf_file |-> Null]
NoExtract == [pages |-> Null]
NoHeader == [bill_name |-> Null]
NoSession == [messages |-> Null]
NoTurn == [question |-> Null]
NoSearch == [query |-> Null]

Init ==
    /\ csv_files = << >>
    /\ BILL_CHUNKS = EmptyBag
    /\ loads = 0
    /\ bill_call = NoSearch
    /\ turn = NoTurn
    /\ session_state = NoSession
    /\ header_call = NoHeader
    /\ pc = "idle"
    /\ call = NoCall
    /\ saved = NoSave
    /\ metadata_call = NoExtract

\* One run of `--load_bills`. LocalPDFProcessor is not imported by
\* local_streamlit_app.py: where the name is unbound the first statement
\* raises NameError, the outer except prints it and nothing is loaded.
\* Where it is bound, the PDFs are written to CSV files, the table is
\* cleared (deleted = FALSE: the DELETE raised and was only printed) and
\* every CSV file is appended (appended: the files whose write did not
\* raise).
LoadAborted ==
    /\ pc = "idle"
    /\ loads < MaxLoads
    /\ loads' = loads + 1
    /\ UNCHANGED <<csv_files, BILL_CHUNKS, pc, call, saved, metadata_call, header_call, session_state, turn, bill_call>>

LoadBills ==
    /\ pc = "idle"
    /\ loads < MaxLoads
    /\ loads' = loads + 1
    /\ LET folder == process_pdfs(csv_files, BillsFolder)
           listed == {n \in DOMAIN folder : EndsWith(n, CsvExt)}
       IN /\ csv_files' = folder
          /\ \E deleted \in BOOLEAN : \E appended \in SUBSET listed :
                BILL_CHUNKS' = AppendCsvFiles(ClearTable(BILL_CHUNKS, deleted), folder, appended)
    /\ UNCHANGED <<pc, call, saved, metadata_call, header_call, session_state, turn, bill_call>>

\* One question: create_prompt calls query_cortex_search_service with the
\* question stripped of apostrophes.
Query ==
    /\ pc = "idle"
    /\ \E question \in Questions : \E n \in 1..NumChunksMax :
       \E debug \in BOOLEAN : \E fail \in StorageCalls \cup {"none"} :
          LET query == StripQuotes(question)
          IN /\ Raises(BILL_CHUNKS, query, n, debug, fail)
             /\ \E out \in query_cortex_search_service(BILL_CHUNKS, query, n, debug, fail) :
                   call' = [question |-> question, query |-> query, n |-> n,
                            debug |-> debug, fail |-> fail] @@ out
    /\ pc' = "returned"
    /\ UNCHANGED <<csv_files, BILL_CHUNKS, loads, saved, metadata_call, header_call, session_state, turn, bill_call>>

\* the script run ends; its locals are gone
RunEnds ==
    /\ pc = "returned"
    /\ pc' = "idle"
    /\ call' = NoCall
    /\ UNCHANGED <<csv_files, BILL_CHUNKS, loads, saved, metadata_call, header_call, session_state, turn, bill_call>>

Next == LoadAborted \/ LoadBills \/ Query \/ RunEnds

Spec == Init /\ [][Next]_vars

(***************************************************************************)
(* save_chunks_to_csv on its own, applied to bounded inputs                *)
(***************************************************************************)
ChunkTexts == {<<"B","y",":"," ","L","e","e">>, <<"t","a","x">>, <<"x">>}

\* sequences over S of length at most n
SeqsUpTo(S, n) == UNION {[1..k -> S] : k \in 0..n}

SaveFiles == {File_hb1, File_sb8}
SaveMetadata == {PdfMetadata(File_hb1), PdfMetadata(File_sb8), PdfMetadata(File_hb9)}

InitCsv ==
    /\ csv_files = << >>
    /\ BILL_CHUNKS = EmptyBag
    /\ loads = 0
    /\ bill_call = NoSearch
    /\ turn = NoTurn
    /\ session_state = NoSession
    /\ header_call = NoHeader
    /\ pc = "idle"
    /\ call = NoCall
    /\ metadata_call = NoExtract
    /\ \E f \in SaveFiles : \E chunks \in SeqsUpTo(ChunkTexts, MaxChunks) :
       \E metadata \in SaveMetadata :
          saved = [pdf_file |-> f, chunks |-> chunks, metadata |-> metadata,
                   done |-> FALSE, written |-> FALSE, returned |-> Null]

SaveChunks ==
    /\ saved.pdf_file # Null
    /\ ~saved.done
    /\ \E written \in BOOLEAN :
          LET r == save_chunks_to_csv(csv_files, saved.pdf_file, saved.chunks,
                                      saved.metadata, written)
          IN /\ csv_files' = r.folder
             /\ saved' = [saved EXCEPT !.done = TRUE, !.written = written,
                                       !.returned = r.returned]
    /\ UNCHANGED <<BILL_CHUNKS, loads, pc, call, metadata_call, header_call, session_state, turn, bill_call>>

NextCsv == SaveChunks

SpecCsv == InitCsv /\ [][NextCsv]_vars

(***************************************************************************)
(* extract_metadata_from_first_page on its own, applied to bounded inputs  *)
(***************************************************************************)
\* pieces of first-page text:
\*   'SUBTITLE: AN ACT TO DO X\n'
\*   'Subtitle\nTO AMEND THE LAW\n'
\*   'By Senator Jane Payton\n'
\*   'Sponsored by: A. Lee, B'
\*   'By Senator A  B,'
\*   '01/13/2025 10:05:00 AM WFP123'
\*   '13/45/2025 10:05:00 AM WFP123'
\*   'AN ACT\n'
MetadataPieces == {
    <<"S","U","B","T","I","T","L","E",":"," ","A","N"," ","A","C","T"," ","T","O"," ","D","O"," ","X","\n">>,
    <<"S","u","b","t","i","t","l","e","\n","T","O"," ","A","M","E","N","D"," ","T","H","E"," ","L","A","W","\n">>,
    <<"B","y"," ","S","e","n","a","t","o","r"," ","J","a","n","e"," ","P","a","y","t","o","n","\n">>,
    <<"S","p","o","n","s","o","r","e","d"," ","b","y",":"," ","A","."," ","L","e","e",","," ","B">>,
    <<"B","y"," ","S","e","n","a","t","o","r"," ","A"," "," ","B",",">>,
    <<"0","1","/","1","3","/","2","0","2","5"," ","1","0",":","0","5",":","0","0"," ","A","M"," ","W","F","P","1","2","3">>,
    <<"1","3","/","4","5","/","2","0","2","5"," ","1","0",":","0","5",":","0","0"," ","A","M"," ","W","F","P","1","2","3">>,
    <<"A","N"," ","A","C","T","\n">>}

\* a first page is made of at most MaxPieces pieces
MaxPieces == 3

\* the PDFs read: one with no page, and one page of every text made of
\* pieces, with characters that no pattern matches before or after them:
\* none, or enough to move the pieces across the end of a window
PdfPages ==
    LET Filler(n) == [i \in 1..n |-> "_"]
        Fillers == {<<0, 0>>, <<990, 0>>, <<1490, 0>>, <<0, 480>>}
        RECURSIVE Concat(_)
        Concat(pieces) == IF pieces = << >> THEN << >> ELSE pieces[1] \o Concat(Tail(pieces))
    IN {<< >>} \cup {<<Filler(f[1]) \o Concat(pieces) \o Filler(f[2])>> :
                       f \in Fillers, pieces \in SeqsUpTo(MetadataPieces, MaxPieces)}

InitMeta ==
    /\ csv_files = << >>
    /\ BILL_CHUNKS = EmptyBag
    /\ loads = 0
    /\ bill_call = NoSearch
    /\ turn = NoTurn
    /\ session_state = NoSession
    /\ header_call = NoHeader
    /\ pc = "idle"
    /\ call = NoCall
    /\ saved = NoSave
    /\ \E pages \in PdfPages :
          metadata_call = [pages |-> pages, done |-> FALSE, returned |-> Null]

ExtractMetadata ==
    /\ metadata_call.pages # Null
    /\ ~metadata_call.done
    /\ metadata_call' = [metadata_call EXCEPT !.done = TRUE,
                             !.returned = extract_metadata_from_first_page(metadata_call.pages)]
    /\ UNCHANGED <<csv_files, BILL_CHUNKS, loads, pc, call, saved, header_call, session_state, turn, bill_call>>

NextMeta == ExtractMetadata

SpecMeta == InitMeta /\ [][NextMeta]_vars

(***************************************************************************)
(* The header of a span on its own, applied to bounded inputs              *)
(***************************************************************************)
\* chunks as the table holds them (read_pdf has replaced every newline by a
\* space and the splitter has stripped them):
\*   'By: Senator Jane Payton'
\*   'AN ACT TO CUT TAXES Subtitle'
\*   'TO CUT TAXES BE IT ENACTED'
\*   'AN ACT TO X Subtitle TO Y BE IT ENACTED'
\*   'Filed 01/13/2025'
\*   'tax'
\*   'Subtitle'
\*   'AN ACT TO CUT TAXES BE IT ENACTED'
SpanChunks == {
    <<"B","y",":"," ","S","e","n","a","t","o","r"," ","J","a","n","e"," ","P","a","y","t","o","n">>,
    <<"A","N"," ","A","C","T"," ","T","O"," ","C","U","T"," ","T","A","X","E","S"," ","S","u","b","t","i","t","l","e">>,
    <<"T","O"," ","C","U","T"," ","T","A","X","E","S"," ","B","E"," ","I","T"," ","E","N","A","C","T","E","D">>,
    <<"A","N"," ","A","C","T"," ","T","O"," ","X"," ","S","u","b","t","i","t","l","e"," ","T","O"," ","Y"," ","B","E"," ","I","T"," ","E","N","A","C","T","E","D">>,
    <<"F","i","l","e","d"," ","0","1","/","1","3","/","2","0","2","5">>,
    <<"t","a","x">>,
    <<"S","u","b","t","i","t","l","e">>,
    <<"A","N"," ","A","C","T"," ","T","O"," ","C","U","T"," ","T","A","X","E","S"," ","B","E"," ","I","T"," ","E","N","A","C","T","E","D">>}

\* a span has at most MaxSpanChunks chunks
MaxSpanChunks == 3

InitHeader ==
    /\ csv_files = << >>
    /\ BILL_CHUNKS = EmptyBag
    /\ loads = 0
    /\ bill_call = NoSearch
    /\ turn = NoTurn
    /\ session_state = NoSession
    /\ metadata_call = NoExtract
    /\ pc = "idle"
    /\ call = NoCall
    /\ saved = NoSave
    /\ \E f \in {File_hb1, File_sb8} : \E bill_chunks \in SeqsUpTo(SpanChunks, MaxSpanChunks) :
          /\ bill_chunks # << >>
          /\ header_call = [bill_name |-> BillName(Upper(f)), bill_chunks |-> bill_chunks,
                            done |-> FALSE, full_text |-> Null, bill_info |-> Null,
                            header |-> Null]

\* the accumulated chunks of a bill are processed (lines 438-440, 456-458)
FormatHeader ==
    /\ header_call.bill_name # Null
    /\ ~header_call.done
    /\ LET full_text == JoinWith(header_call.bill_chunks, <<"\n">>)
           bill_info == extract_bill_info_from_chunk(full_text)
       IN header_call' = [header_call EXCEPT !.done = TRUE, !.full_text = full_text,
                              !.bill_info = bill_info,
                              !.header = format_bill_header(header_call.bill_name, bill_info)]
    /\ UNCHANGED <<csv_files, BILL_CHUNKS, loads, pc, call, saved, metadata_call, session_state, turn, bill_call>>

NextHeader == FormatHeader

SpecHeader == InitHeader /\ [][NextHeader]_vars

(***************************************************************************)
(* The chat session: the questions of the chat input, one script run each  *)
(***************************************************************************)
\* the questions typed into the chat input
ChatQuestions == {Q_senate_bill_8, Q_tax}

\* the table after one load of the bills folder
LoadedFolder == process_pdfs(<< >>, BillsFolder)
LoadedTable ==
    AppendCsvFiles(EmptyBag, LoadedFolder, {n \in DOMAIN LoadedFolder : EndsWith(n, CsvExt)})

\* init_session_state: num_chat_messages starts at 10
DefaultChatMessages == 10
\* the number input of num_chat_messages runs from 1 to 50; the model sets
\* it to 1..MaxWindow
MaxWindow == 3
\* the session holds at most MaxMessages messages
MaxMessages == 4

InitChat ==
    /\ csv_files = LoadedFolder
    /\ BILL_CHUNKS = LoadedTable
    /\ loads = 1
    /\ bill_call = NoSearch
    /\ turn = NoTurn
    /\ session_state = [messages |-> << >>, use_chat_history |-> TRUE,
                        num_chat_messages |-> DefaultChatMessages]
    /\ header_call = NoHeader
    /\ pc = "idle"
    /\ call = NoCall
    /\ saved = NoSave
    /\ metadata_call = NoExtract

\* the "Clear conversation" button
ClearConversation ==
    /\ pc = "idle"
    /\ session_state' = [session_state EXCEPT !.messages = << >>]
    /\ UNCHANGED <<csv_files, BILL_CHUNKS, loads, pc, call, saved, metadata_call, header_call, turn, bill_call>>

\* the "Use chat history" toggle
ToggleChatHistory ==
    /\ pc = "idle"
    /\ session_state' = [session_state EXCEPT !.use_chat_history = ~@]
    /\ UNCHANGED <<csv_files, BILL_CHUNKS, loads, pc, call, saved, metadata_call, header_call, turn, bill_call>>

\* the "Number of chat messages to include" input
SetNumChatMessages ==
    /\ pc = "idle"
    /\ \E num \in 1..MaxWindow :
          session_state' = [session_state EXCEPT !.num_chat_messages = num]
    /\ UNCHANGED <<csv_files, BILL_CHUNKS, loads, pc, call, saved, metadata_call, header_call, turn, bill_call>>

\* st.chat_input returns a question: it is appended to the messages
Accept ==
    /\ pc = "idle"
    /\ Len(session_state.messages) < MaxMessages
    /\ \E question \in ChatQuestions :
          /\ session_state' = [session_state EXCEPT
                                  !.messages = Append(@, [role |-> "user", content |-> question])]
          /\ turn' = [question |-> question, raised |-> FALSE, history |-> Null,
                      retrieved |-> FALSE, prompt |-> Null, results |-> Null,
                      complete_calls |-> << >>, shown |-> Null]
    /\ pc' = "accepted"
    /\ UNCHANGED <<csv_files, BILL_CHUNKS, loads, call, saved, metadata_call, header_call, bill_call>>

\* prompt, results = create_prompt(question.replace("'", ""))
CreatePrompt ==
    /\ pc = "accepted"
    /\ \E n \in 1..NumChunksMax : \E debug \in BOOLEAN :
       \E fail \in StorageCalls \cup {"none"} : \E has_key \in BOOLEAN :
          LET user_question == StripQuotes(turn.question)
          IN /\ Raises(BILL_CHUNKS, user_question, n, debug, fail)
             /\ \E out \in create_prompt(BILL_CHUNKS, session_state, user_question, n,
                                         debug, fail, has_key) :
                   /\ turn' = [turn EXCEPT !.raised = out.raised, !.history = out.history,
                                           !.retrieved = out.retrieved,
                                           !.prompt = out.prompt, !.results = out.results]
                   /\ pc' = IF out.raised THEN "raised" ELSE "prompted"
    /\ UNCHANGED <<csv_files, BILL_CHUNKS, loads, call, saved, metadata_call, header_call, session_state, bill_call>>

\* message_placeholder.markdown(results): the result rows are what the
\* assistant's message shows; complete is not called
ShowResults ==
    /\ pc = "prompted"
    /\ turn' = [turn EXCEPT !.shown = List(turn.results)]
    /\ pc' = "shown"
    /\ UNCHANGED <<csv_files, BILL_CHUNKS, loads, call, saved, metadata_call, header_call, session_state, bill_call>>

\* the script run ends, after the answer or with the exception
TurnEnds ==
    /\ pc \in {"shown", "raised"}
    /\ pc' = "idle"
    /\ turn' = NoTurn
    /\ UNCHANGED <<csv_files, BILL_CHUNKS, loads, call, saved, metadata_call, header_call, session_state, bill_call>>

NextChat ==
    \/ ClearConversation \/ ToggleChatHistory \/ SetNumChatMessages
    \/ Accept \/ CreatePrompt \/ ShowResults \/ TurnEnds

SpecChat == InitChat /\ [][NextChat]_vars

(***************************************************************************)
(* The search for a bill id on its own, applied to bounded questions       *)
(***************************************************************************)
\* the words of the questions: bill ids of both types in the spellings
\* the patterns accept, and words that name no bill
QuestionWords == {
    <<"h","b","4","5">>,
    <<"S","B","8">>,
    <<"S","e","n","a","t","e"," ","B","i","l","l"," ","1","2">>,
    <<"h","o","u","s","e"," ","b","i","l","l"," ","7">>,
    <<"v","s">>,
    <<"s","b">>}

\* a question has at most MaxWords words
MaxWords == 3

InitBill ==
    /\ csv_files = << >>
    /\ BILL_CHUNKS = EmptyBag
    /\ loads = 0
    /\ turn = NoTurn
    /\ session_state = NoSession
    /\ header_call = NoHeader
    /\ metadata_call = NoExtract
    /\ pc = "idle"
    /\ call = NoCall
    /\ saved = NoSave
    /\ \E words \in SeqsUpTo(QuestionWords, MaxWords) :
          /\ words # << >>
          /\ bill_call = [query |-> JoinWith(words, <<" ">>), done |-> FALSE,
                          bill_query |-> Null]

\* the loop over bill_patterns (lines 259-273)
SearchBill ==
    /\ bill_call.query # Null
    /\ ~bill_call.done
    /\ bill_call' = [bill_call EXCEPT !.done = TRUE,
                                      !.bill_query = ExtractBillQuery(bill_call.query)]
    /\ UNCHANGED <<csv_files, BILL_CHUNKS, loads, pc, call, saved, metadata_call, header_call, session_state, turn>>

NextBill == SearchBill

SpecBill == InitBill /\ [][NextBill]_vars

(***************************************************************************)
(* Properties of query_cortex_search_service (checked under Spec)          *)
(***************************************************************************)
\* a call has returned and its outcome is in `call`
Returned == pc = "returned"
\* the call got as far as the classification of its query: neither check
\* before it raised
Classified == Returned /\ call.fail \notin {"row_count", "available_bills"}
\* the retrieval query of the call was run and returned its rows
Retrieved == Classified /\ call.fail \in {"none", "table_info"}

\* the document id of a stored file name: the name without its extension
DocId(source_file) == SubSeq(source_file, 1, Len(source_file) - Len(PdfExt))

\* the rows come with chunk_index ascending (two rows may carry the same
\* chunk_index: rows of different documents, or rows stored twice)
Ascending(rows) == \A i \in 1..(Len(rows) - 1) : rows[i].chunk_index <= rows[i + 1].chunk_index

\* the number of rows of the table among `rows`
RowCount(t, rows) == BagCardinality(Where(t, rows))

\* the number of retrieval queries the call executed
RetrievalCount == Cardinality({i \in DOMAIN call.calls : call.calls[i] = "retrieval"})

\* every <SB|HB><n> the query names: a bill word of the type, optional
\* whitespace and the number n, anywhere in the query
NamedBillsOf(query, btype) ==
    {btype \o SubSeq(query, BillMatchAt(Lower(query), i, btype)[1],
                            BillMatchAt(Lower(query), i, btype)[2] - 1) :
        i \in {j \in 1..Len(query) : BillMatchAt(Lower(query), j, btype) # <<>>}}
NamedBills == [query \in Queries |-> NamedBillsOf(query, SB) \cup NamedBillsOf(query, HB)]

\* the name the first sponsor pattern that matches the query captures is
\* not blank
CapturesName(m1, m2) == IF m1[1] THEN m1[2] # <<>> ELSE m2[1] /\ m2[2] # <<>>

\* which rules match each query
RuleMatches ==
    [query \in Queries |->
        [bill |-> NamedBills[query] # {},
         type |-> \E k \in 1..6 : BillTypePatternMatches(k, Lower(query)),
         sponsor |-> SponsorPattern1(query)[1] \/ SponsorPattern2(query)[1],
         name |-> CapturesName(SponsorPattern1(query), SponsorPattern2(query))]]

\* the first rule that matches, in priority order
FirstRule(bill, type, sponsor) ==
    IF bill THEN "bill" ELSE IF type THEN "type" ELSE IF sponsor THEN "sponsor" ELSE "text"

\* the query of mode `mode`, run on the table
ModeSql(mode) ==
    CASE mode = "bill" -> SpecificBillSql(BILL_CHUNKS, call.bill_query, call.n)
      [] mode = "type" -> BillTypeSql(BILL_CHUNKS, call.bill_type)
      [] mode = "sponsor" -> SponsorSql(BILL_CHUNKS, call.sponsor_name)
      [] mode = "text" -> FreeTextSql(BILL_CHUNKS, call.query, call.n)

\* C1: every classified question is in the mode of the first rule that
\* matches it, in the order specific bill, bill type, sponsor, free text,
\* where the sponsor rule counts as matching only when the first sponsor
\* pattern that matches captures a name that is not blank; a call that gets
\* to its retrieval query executes exactly one, and its rows are rows the
\* query of that one mode returns.
C1_FirstMatchingRuleWins ==
    Classified =>
        /\ call.mode = FirstRule(RuleMatches[call.query].bill, RuleMatches[call.query].type,
                                 RuleMatches[call.query].name)
        /\ RetrievalCount = IF call.fail = "debug_count" THEN 0 ELSE 1
        /\ Retrieved => call.results \in ModeSql(call.mode)

\* C1, a question that the bill-type rule and the sponsor rule both match
\* is answered in bill-type mode by one retrieval query
C1_LowerRuleAlsoMatches ==
    /\ Returned /\ call.question = Q_latest_sb_by /\ call.fail = "none"
    /\ call.mode = "type" /\ RuleMatches[call.query].sponsor
    /\ RetrievalCount = 1 /\ call.results # << >>

\* C1 as the specification words it: the sponsor rule matches whenever a
\* sponsor pattern matches the question. A question whose sponsor pattern
\* captures only whitespace is searched as free text.
C1_AnySponsorMatch ==
    Classified =>
        /\ call.mode = FirstRule(RuleMatches[call.query].bill, RuleMatches[call.query].type,
                                 RuleMatches[call.query].sponsor)
        /\ RetrievalCount = IF call.fail = "debug_count" THEN 0 ELSE 1

\* C2: a question that names a bill (SB, Senate Bill, HB or House Bill, any
\* letter case, optional whitespace, a number n) is in specific-bill mode
\* with a canonical id <SB|HB><n> it names, "What's in Senate Bill 8?" with
\* SB8; every row retrieved is of the document whose id equals the canonical
\* id up to letter case, the rows are in ascending chunk_index order, and the
\* rows returned are those rows or none.
C2_SpecificBill ==
    Classified /\ NamedBills[call.query] # {} =>
        /\ call.mode = "bill"
        /\ call.bill_query \in NamedBills[call.query]
        /\ call.question = Q_senate_bill_8 => call.bill_query = <<"S","B","8">>
        /\ Retrieved =>
              /\ \A i \in DOMAIN call.results :
                    Upper(DocId(call.results[i].source_file)) = Upper(call.bill_query)
              /\ Ascending(call.results)
              /\ call.rows \in {call.results, << >>}

\* C2, "What's in Senate Bill 8?" returns the three chunks of SB8
C2_SenateBill8Returned ==
    /\ Returned /\ call.question = Q_senate_bill_8 /\ call.fail = "none"
    /\ call.bill_query = <<"S","B","8">>
    /\ Len(call.rows) = 3
    /\ \A i \in DOMAIN call.rows : call.rows[i].source_file = <<"S","B","8",".","P","D","F">>

\* C3: in specific-bill mode the rows returned are all the stored chunks of
\* the requested bill, however many the retrieval-size limit N allows.
C3_WholeBillReturned ==
    Classified /\ call.mode = "bill" /\ call.fail = "none" =>
        Len(call.rows) = RowCount(BILL_CHUNKS,
                                  {r \in DOMAIN BILL_CHUNKS :
                                      Upper(DocId(r.source_file)) = Upper(call.bill_query)})

\* C4: in bill-type mode the rows returned are all the stored chunks, in
\* ascending chunk_index order, of one document: the one of that type whose
\* file name is the greatest string (no rows when no document of the type is
\* stored). With HB1, HB45 and HB9 stored, "Show me a recent House Bill"
\* returns rows of HB9 only.
C4_GreatestDocument ==
    Classified /\ call.mode = "type" /\ call.fail = "none" =>
        LET docs == {r.source_file : r \in {x \in DOMAIN BILL_CHUNKS :
                                               StartsWith(x.source_file, call.bill_type)}}
        IN /\ docs = {} => call.rows = << >>
           /\ docs # {} =>
                 \E top \in docs :
                    /\ \A g \in docs : g = top \/ StrLess(g, top)
                    /\ \A i \in DOMAIN call.rows : call.rows[i].source_file = top
                    /\ Len(call.rows) = RowCount(BILL_CHUNKS,
                                           {r \in DOMAIN BILL_CHUNKS : r.source_file = top})
                    /\ \A r \in DOMAIN BILL_CHUNKS :
                          r.source_file = top => Project(r) \in Range(call.rows)
           /\ Ascending(call.rows)
           /\ call.question = Q_recent_house_bill
                 /\ {Upper(File_hb1), Upper(File_hb45), Upper(File_hb9)} \subseteq docs
              => \A i \in DOMAIN call.rows : call.rows[i].source_file = Upper(File_hb9)

\* C4: in bill-type mode the rows retrieved are all the stored chunks, in
\* ascending chunk_index order, of the document of that type whose file name
\* is the greatest string (none when no document of the type is stored); the
\* rows returned are those rows when one of them has chunk text, and none
\* when no chunk of the document has text.
C4_GreatestDocumentWithText ==
    Classified /\ call.mode = "type" /\ call.fail = "none" =>
        LET docs == {r.source_file : r \in {x \in DOMAIN BILL_CHUNKS :
                                               StartsWith(x.source_file, call.bill_type)}}
        IN /\ docs = {} => call.results = << >>
           /\ docs # {} =>
                 \E top \in docs :
                    /\ \A g \in docs : g = top \/ StrLess(g, top)
                    /\ \A i \in DOMAIN call.results : call.results[i].source_file = top
                    /\ Len(call.results) = RowCount(BILL_CHUNKS,
                                              {r \in DOMAIN BILL_CHUNKS : r.source_file = top})
                    /\ \A r \in DOMAIN BILL_CHUNKS :
                          r.source_file = top => Project(r) \in Range(call.results)
           /\ Ascending(call.results)
           /\ call.rows = IF \E i \in DOMAIN call.results : Truthy(call.results[i].chunk)
                          THEN call.results ELSE << >>
           /\ call.question = Q_recent_house_bill
                 /\ {Upper(File_hb1), Upper(File_hb45), Upper(File_hb9)} \subseteq docs
              => /\ call.rows # << >>
                 /\ \A i \in DOMAIN call.rows : call.rows[i].source_file = Upper(File_hb9)

\* C4, "Show me a recent House Bill" with HB1, HB45 and HB9 stored returns
\* the two chunks of HB9
C4_RecentHouseBillReturned ==
    /\ Returned /\ call.question = Q_recent_house_bill /\ call.fail = "none"
    /\ call.mode = "type"
    /\ {Upper(File_hb1), Upper(File_hb45), Upper(File_hb9)}
          \subseteq {r.source_file : r \in DOMAIN BILL_CHUNKS}
    /\ Len(call.rows) = 2
    /\ call.rows[1].source_file = Upper(File_hb9)

\* the stored documents whose first chunk (lowest chunk_index) contains
\* marker and, in any letter case, name
FirstChunkHas(marker, name) ==
    {r.source_file : r \in {x \in DOMAIN BILL_CHUNKS :
        /\ \A y \in DOMAIN BILL_CHUNKS :
              y.source_file = x.source_file => x.chunk_index <= y.chunk_index
        /\ x.chunk # Null
        /\ Contains(x.chunk, marker)
        /\ Contains(Lower(x.chunk), Lower(name))}}

\* "By: Senator Jane Payton"
BySenatorJanePayton == <<"B","y",":"," ","S","e","n","a","t","o","r"," ","J","a","n","e"," ","P","a","y","t","o","n">>

\* C5: in sponsor mode the rows returned are the chunks of exactly the
\* stored documents whose first chunk contains `By:` and, in any letter
\* case, the sponsor name of the question; "What bills has Senator Payton
\* filed?" returns in full every document whose first chunk contains
\* `By: Senator Jane Payton`.
C5_SponsorDocuments ==
    /\ Classified /\ call.mode = "sponsor" /\ call.fail = "none" =>
          \A r \in DOMAIN BILL_CHUNKS :
             r.source_file \in FirstChunkHas(ByMarker, call.sponsor_name)
                <=> Project(r) \in Range(call.rows)
    /\ Returned /\ call.question = Q_payton_filed /\ call.fail = "none" =>
          \A r \in DOMAIN BILL_CHUNKS :
             r.source_file \in FirstChunkHas(BySenatorJanePayton, << >>)
                => Project(r) \in Range(call.rows)

\* C6: in free-text mode every row retrieved is a stored chunk whose text
\* contains the query, there are at most N (num_retrieved_chunks) rows, and
\* they are in ascending chunk_index order.
C6_FreeText ==
    Retrieved /\ call.mode = "text" =>
        /\ \A i \in DOMAIN call.results :
              /\ call.results[i] \in {Project(r) : r \in DOMAIN BILL_CHUNKS}
              /\ Contains(call.results[i].chunk, call.query)
        /\ Len(call.results) <= call.n
        /\ Ascending(call.results)
        /\ call.rows \in {call.results, << >>}

\* C6, a free-text search that more than N stored chunks match returns N
\* rows
C6_FreeTextCutToN ==
    /\ Classified /\ call.mode = "text" /\ call.fail = "none"
    /\ call.question = Q_tax
    /\ Len(call.rows) = call.n
    /\ RowCount(BILL_CHUNKS, {r \in DOMAIN BILL_CHUNKS :
                                 r.chunk # Null /\ Contains(r.chunk, call.query)}) > call.n

\* C7: in the formatted context every document is the subject of at most one
\* span, which holds all its returned chunks, and the spans are in the order
\* in which their documents first occur in the rows.
C7_OneSpanPerDocument ==
    Returned /\ call.context_parts # << >> =>
        /\ \A i, j \in DOMAIN call.context_parts :
              call.context_parts[i].bill = call.context_parts[j].bill => i = j
        /\ \A i, j \in DOMAIN call.context_parts :
              i < j =>
                 \E k \in DOMAIN call.rows :
                    /\ BillName(call.rows[k].source_file) = call.context_parts[i].bill
                    /\ \A m \in 1..k :
                          BillName(call.rows[m].source_file) # call.context_parts[j].bill

\* C8: when a storage call of query_cortex_search_service raises, the
\* function raises nothing and returns an empty context text and an empty
\* result set.
C8_ErrorGivesEmptyTextAndRows ==
    Returned /\ call.fail # "none" =>
        /\ ~call.raised
        /\ call.context = Str(<< >>)
        /\ call.rows = << >>

\* C9: after any number of load_bills_to_snowflake runs, whatever the outcome
\* of each storage call, BILL_CHUNKS holds at most one row for each
\* (source_file, chunk_index) pair.
C9_OneRowPerChunk ==
    \A r \in DOMAIN BILL_CHUNKS :
        RowCount(BILL_CHUNKS, {x \in DOMAIN BILL_CHUNKS :
                                  /\ x.source_file = r.source_file
                                  /\ x.chunk_index = r.chunk_index}) <= 1

(***************************************************************************)
(* Properties of save_chunks_to_csv (checked under SpecCsv)                *)
(***************************************************************************)
\* C10: for chunks c_0..c_{n-1} save_chunks_to_csv writes and returns n
\* records in chunk order, the i-th with chunk_index = i, chunk = c_i,
\* chunk_length = the length of c_i, the file name as source_file and the
\* metadata of the document (date_filed as the text of the same time,
\* bill_subtitle, bill_sponsor).
C10_RecordsOfChunks ==
    saved.pdf_file # Null /\ saved.done /\ saved.written =>
        LET records == csv_files[CsvName(saved.pdf_file)]
        IN /\ saved.returned = records
           /\ Len(records) = Len(saved.chunks)
           /\ \A i \in DOMAIN records :
                 /\ records[i].chunk_index = i - 1
                 /\ records[i].chunk = saved.chunks[i]
                 /\ records[i].chunk_length = Len(saved.chunks[i])
                 /\ records[i].source_file = saved.pdf_file
                 /\ records[i].bill_subtitle = saved.metadata.bill_subtitle
                 /\ records[i].bill_sponsor = saved.metadata.bill_sponsor
                 /\ ParseTimestamp(records[i].date_filed) = saved.metadata.date_filed

\* C10, three chunks of a document with a filing date have been saved
C10_ThreeChunksSaved ==
    /\ saved.pdf_file # Null /\ saved.done /\ saved.written
    /\ Len(saved.chunks) = 3
    /\ saved.metadata.date_filed # Null
    /\ Len(csv_files[CsvName(saved.pdf_file)]) = 3

(***************************************************************************)
(* Properties of extract_metadata_from_first_page (checked under SpecMeta) *)
(***************************************************************************)
\* a call of extract_metadata_from_first_page has returned
Extracted == metadata_call.pages # Null /\ metadata_call.done

\* no date, subtitle or sponsor pattern matches anywhere in the part of the
\* text it is searched in
NoPatternMatches(text) ==
    /\ \A i \in 1..Len(LastChars(text, BottomChars)) :
          DatePatternEnd(LastChars(text, BottomChars), i) = 0
    /\ \A n \in 1..3 : \A i \in 1..Len(FirstChars(text, SubtitleChars)) :
          SubtitleGroupAt(FirstChars(text, SubtitleChars), n, i) = 0
    /\ \A n \in 1..3 : \A i \in 1..Len(FirstChars(text, SponsorChars)) :
          SponsorGroupAt(FirstChars(text, SponsorChars), n, i) = 0

\* C11: a call on a document with no pages, or on a first page where no
\* date, subtitle or sponsor pattern matches, returns the record with
\* date_filed, bill_subtitle and bill_sponsor all null (and returns: the
\* call raises nothing)
C11_NoMatchGivesNulls ==
    (Extracted /\ (metadata_call.pages = << >> \/ NoPatternMatches(metadata_call.pages[1])))
        => metadata_call.returned = NoMetadata

\* C11 witness: a call on a page that holds text ('AN ACT') which no
\* pattern matches has returned the all-null record
C11_PlainPageExtracted ==
    /\ Extracted
    /\ Len(metadata_call.pages) = 1
    /\ Contains(metadata_call.pages[1], <<"A","N"," ","A","C","T">>)
    /\ NoPatternMatches(metadata_call.pages[1])
    /\ metadata_call.returned = NoMetadata

\* the part of the first page that is searched for a subtitle
SubtitleWindow == FirstChars(metadata_call.pages[1], SubtitleChars)

\* the labels of the subtitle patterns, in list order (the third pattern
\* starts with the label of the first)
SubtitleLabels == <<<<"S","U","B","T","I","T","L","E">>, <<"S","u","b","t","i","t","l","e">>>>

\* the positions of text where the label stands and is followed, before
\* the end of text, by a character that is not a newline
LabelsIn(text, label) ==
    {i \in 1..Len(text) : MatchAt(text, i, label)
                          /\ \E k \in (i + Len(label))..Len(text) : text[k] # "\n"}

\* the position after the label at i and after the colon that follows it,
\* if there is one with a character that is not a newline after it
AfterLabel(text, i, label) ==
    LET p == i + Len(label)
    IN IF MatchAt(text, p, <<":">>) /\ (\E k \in (p + 1)..Len(text) : text[k] # "\n")
       THEN p + 1 ELSE p

\* the text from position a up to the end of the line of position b,
\* without the whitespace at its two ends
Trimmed(text, a, b) ==
    LET e == Least({k \in b..(Len(text) + 1) : k > Len(text) \/ text[k] = "\n"})
        ks == {k \in a..(e - 1) : text[k] \notin Whitespace}
    IN IF ks = {} THEN << >> ELSE SubSeq(text, Least(ks), Greatest(ks))

\* the line of the first character at or after position c that is not
\* whitespace, from that character on, trimmed; empty if there is none
FirstTextLine(text, c) ==
    LET ks == {k \in c..Len(text) : text[k] \notin Whitespace}
    IN IF ks = {} THEN << >> ELSE Trimmed(text, Least(ks), Least(ks))

\* the subtitle, given what follows a label is to be read by Read = "line"
\* (the rest of the label's own line) or "text" (the first line with text)
SubtitleBy(text, read) ==
    LET n == IF LabelsIn(text, SubtitleLabels[1]) # {} THEN 1
             ELSE IF LabelsIn(text, SubtitleLabels[2]) # {} THEN 2 ELSE 0
        i == Least(LabelsIn(text, SubtitleLabels[n]))
        c == AfterLabel(text, i, SubtitleLabels[n])
    IN IF n = 0 THEN Null
       ELSE IF read = "line" THEN Trimmed(text, c, c) ELSE FirstTextLine(text, c)

\* C15 (amended): the subtitle is taken from the first 1500 characters, at
\* the leftmost match of the first pattern in list order that matches;
\* it is the text, trimmed, from the first character that is not
\* whitespace after the label and its colon to the end of that
\* character's line (the label's own line or a later one), and empty when
\* only whitespace follows
C15_SubtitleOfFirstPattern ==
    (Extracted /\ metadata_call.pages # << >>)
        => metadata_call.returned.bill_subtitle = SubtitleBy(SubtitleWindow, "text")

\* C15 witness: a page where 'Subtitle' stands before
\* 'SUBTITLE: AN ACT TO DO X' and a newline gave exactly 'AN ACT TO DO X'
C15_UpperLabelWins ==
    /\ Extracted
    /\ metadata_call.pages # << >>
    /\ LabelsIn(SubtitleWindow, SubtitleLabels[2]) # {}
    /\ \E i \in LabelsIn(SubtitleWindow, SubtitleLabels[1]) :
          /\ i > Least(LabelsIn(SubtitleWindow, SubtitleLabels[2]))
          /\ MatchAt(SubtitleWindow, i, <<"S","U","B","T","I","T","L","E",":"," ","A","N"," ","A","C","T"," ","T","O"," ","D","O"," ","X","\n">>)
    /\ metadata_call.returned.bill_subtitle = <<"A","N"," ","A","C","T"," ","T","O"," ","D","O"," ","X">>

\* C15 as worded: the subtitle is the rest of the label's own line, trimmed
C15_RestOfLabelLine ==
    (Extracted /\ metadata_call.pages # << >>)
        => metadata_call.returned.bill_subtitle = SubtitleBy(SubtitleWindow, "line")

\* the last 500 characters of text
BottomOf(text) ==
    SubSeq(text, IF Len(text) > BottomChars THEN Len(text) - BottomChars + 1 ELSE 1, Len(text))

\* where date_pattern matches in bottom
StampsIn(bottom) == {i \in 1..Len(bottom) : DatePatternEnd(bottom, i) > 0}

\* the date and time of the stamp at i, its source code left out, parse
StampParses(bottom, i) ==
    ToDatetime(Join(SubSeq(Split(SubSeq(bottom, i, DatePatternEnd(bottom, i) - 1)), 1, 3))) # Null

\* the leftmost stamp of bottom parses / there is one and it does not parse
GoodStamp(bottom, stamps) == stamps # {} /\ StampParses(bottom, Least(stamps))
BadStamp(bottom, stamps) == stamps # {} /\ ~StampParses(bottom, Least(stamps))

\* C16: date_filed is not null only when date_pattern matches in the last
\* 500 characters of the first page and the date and time of the match
\* parse; when the pattern matches there and they do not parse, date_filed
\* is null, the call returns, and subtitle and sponsor are those of the page
C16_DateFromBottom ==
    (Extracted /\ metadata_call.pages # << >>) =>
        /\ metadata_call.returned.date_filed # Null =>
              GoodStamp(BottomOf(metadata_call.pages[1]), StampsIn(BottomOf(metadata_call.pages[1])))
        /\ BadStamp(BottomOf(metadata_call.pages[1]), StampsIn(BottomOf(metadata_call.pages[1]))) =>
              /\ metadata_call.returned.date_filed = Null
              /\ metadata_call.returned.bill_subtitle = SubtitleBy(SubtitleWindow, "text")
              /\ metadata_call.returned.bill_sponsor =
                    ExtractSponsor(FirstChars(metadata_call.pages[1], SponsorChars))

\* C16 witness: a page with a subtitle, a sponsor and the stamp
\* '13/45/2025 10:05:00 AM WFP123', which does not parse, gave a null
\* date_filed with the subtitle and the sponsor
C16_BadStampStillExtracts ==
    /\ Extracted
    /\ metadata_call.pages # << >>
    /\ BadStamp(BottomOf(metadata_call.pages[1]), StampsIn(BottomOf(metadata_call.pages[1])))
    /\ metadata_call.returned = [date_filed |-> Null, bill_subtitle |-> <<"A","N"," ","A","C","T"," ","T","O"," ","D","O"," ","X">>, bill_sponsor |-> <<"J","a","n","e"," ","P","a","y","t","o","n">>]

\* C17: the sponsor a call returns holds no newline, no comma and no two
\* consecutive spaces
C17_SponsorHasNoSeparator ==
    (Extracted /\ metadata_call.returned.bill_sponsor # Null) =>
        LET sponsor == metadata_call.returned.bill_sponsor
        IN /\ \A k \in 1..Len(sponsor) : sponsor[k] \notin {"\n", ","}
           /\ \A k \in 1..(Len(sponsor) - 1) : ~(sponsor[k] = " " /\ sponsor[k + 1] = " ")

(***************************************************************************)
(* Properties of the span header (checked under SpecHeader)                *)
(***************************************************************************)
\* a header has been made
Formatted == header_call.bill_name # Null /\ header_call.done

\* C12: the header has a line for the summary, the subtitle, the sponsor
\* or the filing date only if the field was extracted from the text, and
\* shows no placeholder for a field that was not
C12_OnlyExtractedFields ==
    Formatted =>
        /\ Contains(header_call.header, <<"*","*","S","u","m","m","a","r","y","*","*",":"," ">>) => ChunkSummary(header_call.full_text) # Null
        /\ Contains(header_call.header, <<"*","*","S","u","b","t","i","t","l","e","*","*",":"," ">>) => ChunkSubtitle(header_call.full_text) # Null
        /\ Contains(header_call.header, <<"*","*","S","p","o","n","s","o","r","*","*",":"," ">>) => ChunkSponsor(header_call.full_text) # Null
        /\ Contains(header_call.header, <<"*","*","F","i","l","e","d","*","*",":"," ">>) => ChunkDate(header_call.full_text) # Null
        /\ ~Contains(header_call.header, UnknownSponsor)

(***************************************************************************)
(* Properties of the returned context (checked under Spec)                 *)
(***************************************************************************)
\* the markdown link of the document id
LinkOf(id) ==
    <<"[">> \o id \o <<"]", "(">> \o <<"h","t","t","p","s",":","/","/","a","r","k","l","e","g",".","s","t","a","t","e",".","a","r",".","u","s","/","H","o","m","e","/","F","T","P","D","o","c","u","m","e","n","t","?","p","a","t","h","=","%","2","F","B","i","l","l","s","%","2","F","2","0","2","5","R","%","2","F","P","u","b","l","i","c","%","2","F">> \o id \o <<".","p","d","f",")">>

\* C13: the header of every span of a returned context starts with the link
\* of the id of the document its rows come from: the stored file name
\* without its extension
C13_LinkOfDocumentId ==
    Retrieved =>
        \A i \in DOMAIN call.context_parts : \A k \in DOMAIN call.rows :
            BillName(call.rows[k].source_file) = call.context_parts[i].bill =>
                StartsWith(call.context_parts[i].header,
                           <<"#","#"," ">> \o LinkOf(DocId(call.rows[k].source_file)))

\* C14: whenever a call returns rows, in whichever of the four modes, the
\* returned context begins with a summary of the mode that was selected
C14_SummaryInEveryMode ==
    (Retrieved /\ call.rows # << >>) =>
        /\ call.context.parts # << >>
        /\ "summary" \in DOMAIN call.context.parts[1]
        /\ call.context.parts[1].summary = call.mode

(***************************************************************************)
(* Properties of the summary of a span (checked under SpecHeader)          *)
(***************************************************************************)
\* the positions of text from position p on where the marker w starts
MarkersFrom(text, p, w) == {m \in p..Len(text) : MatchAt(text, m, w)}

\* the summary as the text between the first `AN ACT` and the first
\* `BE IT ENACTED` or `Subtitle` after it, stripped, its whitespace runs
\* collapsed; Null when a marker is missing
SummaryBetween(text, acts) ==
    IF acts = {} THEN Null
    ELSE LET p == Least(acts) + 6
             ends == MarkersFrom(text, p, <<"B","E"," ","I","T"," ","E","N","A","C","T","E","D">>) \cup MarkersFrom(text, p, <<"S","u","b","t","i","t","l","e">>)
         IN IF ends = {} THEN Null
            ELSE CollapseFrom(Strip(SubSeq(text, p, Least(ends) - 1)), 1)

\* C18: the summary of a span is the text between `AN ACT` and the first of
\* `BE IT ENACTED` and `Subtitle` after it, with whitespace runs collapsed:
\* it ends before a `Subtitle` that comes before `BE IT ENACTED`
C18_SummaryEndsAtFirstMarker ==
    Formatted =>
        LET between == SummaryBetween(header_call.full_text,
                                      MarkersFrom(header_call.full_text, 1, <<"A","N"," ","A","C","T">>))
        IN (between # Null /\ between # << >>) =>
               header_call.bill_info.summary = between

(***************************************************************************)
(* Properties of the chat turn (checked under SpecChat)                    *)
(***************************************************************************)
\* create_prompt returned: get_chat_history was called in this script run
Prompted == pc \in {"prompted", "shown"}

\* C20: the history that get_chat_history returned is a run of consecutive
\* messages of the session in their order, which ends before the last
\* message (the question of this run) and has at most num_chat_messages
\* entries; it is empty when no message precedes the question
C20_HistoryWindow ==
    Prompted =>
        LET messages == session_state.messages
            history == turn.history
        IN /\ \E first \in 1..Len(messages) :
                 /\ first + Len(history) - 1 <= Len(messages) - 1
                 /\ history = SubSeq(messages, first, first + Len(history) - 1)
           /\ Len(history) <= session_state.num_chat_messages
           /\ Len(messages) = 1 => history = << >>

\* a history read through a window shorter than the messages before the
\* question: earlier messages are left out
C20_WindowCutsHistory ==
    /\ Prompted
    /\ turn.history # << >>
    /\ Len(turn.history) < Len(session_state.messages) - 1
    /\ turn.history[Len(turn.history)]
           = session_state.messages[Len(session_state.messages) - 1]

\* C19: the answer shown for a question is the text that the completion
\* service generated from the prompt of that question
C19_AnswerIsGenerated ==
    pc = "shown" =>
        /\ Len(turn.complete_calls) = 1
        /\ turn.complete_calls[1].prompt = turn.prompt
        /\ turn.shown = turn.complete_calls[1].returned

(***************************************************************************)
(* Properties of the returned pair (checked under Spec)                    *)
(***************************************************************************)
\* C21: every call returns either rows and a context that are both empty or
\* rows and a context that are both non-empty
C21_RowsIffContext ==
    Returned => (call.rows = << >> <=> call.context.parts = << >>)

\* the retrieval query returned rows, none of them with chunk text: the
\* call returns no rows and the empty context
C21_RowsWithoutText ==
    /\ Retrieved
    /\ call.results # << >>
    /\ \A i \in DOMAIN call.results : call.results[i].chunk = Null
    /\ call.rows = << >>
    /\ call.context = Str(<< >>)

(***************************************************************************)
(* Properties of create_prompt (checked under SpecChat)                    *)
(***************************************************************************)
\* C22: whatever the chat-history toggle, create_prompt runs the retrieval
\* for the accepted question and returns its prompt and results; it does
\* not raise
C22_PromptWithoutRaising ==
    pc \in {"prompted", "raised", "shown"} => (~turn.raised /\ turn.retrieved)

(***************************************************************************)
(* Properties of the sponsor of a span (checked under SpecHeader)          *)
(***************************************************************************)
\* the positions of text where a sponsor line `By: Senator <name>` or
\* `By: Representative <name>` starts
SponsorLines(text) ==
    {i \in 1..Len(text) : \/ MatchAt(text, i, <<"B","y",":"," ","S","e","n","a","t","o","r"," ">>)
                          \/ MatchAt(text, i, <<"B","y",":"," ","R","e","p","r","e","s","e","n","t","a","t","i","v","e"," ">>)}

\* the title and name of the sponsor line at position i: the text after
\* `By:` up to the end of the line
RestOfSponsorLine(text, i) ==
    LET end == Least({k \in i..(Len(text) + 1) : k = Len(text) + 1 \/ text[k] = "\n"})
    IN Strip(SubSeq(text, i + 3, end - 1))

\* C23: when the text of a span has a sponsor line, the sponsor of the
\* header is the whole remainder of that line after `By:`
C23_SponsorIsRestOfLine ==
    Formatted =>
        LET lines == SponsorLines(header_call.full_text)
        IN lines # {} =>
              /\ header_call.bill_info.sponsor
                     = RestOfSponsorLine(header_call.full_text, Least(lines))
              /\ Contains(header_call.header,
                          <<"*","*","S","p","o","n","s","o","r","*","*",":"," ">> \o RestOfSponsorLine(header_call.full_text, Least(lines)))

(***************************************************************************)
(* Properties of the search for a bill id (checked under SpecBill)         *)
(***************************************************************************)
Searched == bill_call.query # Null /\ bill_call.done

\* the positions of the query where a bill id of the type is written
Mentions(query, btype) ==
    {i \in 1..Len(query) : BillMatchAt(Lower(query), i, btype) # <<>>}

\* the canonical id of the bill id written at position i
IdAt(query, i, btype) ==
    btype \o SubSeq(query, BillMatchAt(Lower(query), i, btype)[1],
                           BillMatchAt(Lower(query), i, btype)[2] - 1)

\* the bill id the selection rule gives: the leftmost Senate id if there is
\* one, otherwise the leftmost House id
Selected(query, senate, house) ==
    IF senate # {} THEN IdAt(query, Least(senate), SB)
    ELSE IdAt(query, Least(house), HB)

\* C24: of several bill ids in a question the one selected is the leftmost
\* Senate id if the question has a Senate id, otherwise the leftmost House
\* id; a House id written before a Senate id is not selected
C24_SenateMatchFirst ==
    Searched =>
        LET senate == Mentions(bill_call.query, SB)
            house == Mentions(bill_call.query, HB)
        IN Cardinality(senate) + Cardinality(house) > 1 =>
               bill_call.bill_query = Selected(bill_call.query, senate, house)

\* a question with a House id written before two Senate ids: the first of
\* the Senate ids is selected
C24_HouseIdBeforeSenateIds ==
    /\ Searched
    /\ bill_call.query = <<"h","b","4","5"," ","S","e","n","a","t","e"," ","B","i","l","l"," ","1","2"," ","S","B","8">>
    /\ bill_call.bill_query = <<"S","B","1","2">>
====
